---- MODULE Spec2Model ----
(***************************************************************************)
(* A model of lazi-cli: the append-only execution log (logger.ts), the     *)
(* batch orchestrator of the lazi CLI, and the script assembly pipeline    *)
(* of scriptbuilder (cli.js, templateEngine.js).                           *)
(*                                                                         *)
(* Text is a sequence of pieces (strings); the piece "\n" is a newline.    *)
(* The log file is a sequence of lines; a line is a record                 *)
(*   [tag, num, txt, arg, body]                                            *)
(* tag "Log" is a header line "[Log-<num>] [<time>] ...", where txt is the *)
(* marker after the time stamp ("EVENT-START", "STEP", "EVENT-END", or ""  *)
(* for a single record), arg the step number and body the name; every      *)
(* other tag is the label of a "<label>: <value>" line; tag "---" is the   *)
(* separator line.  Time stamps and durations are left out of the lines.   *)
(***************************************************************************)
EXTENDS Integers, Sequences, FiniteSets, TLC

VARIABLES
  disk,          \* the storage directory: the log file and the counter file
  issued,        \* history: the ids getNextLogId has returned, in call order
  given,         \* history: the ids writeLog was handed in entry.id (other than 0)
  allocs,        \* the calls of getNextLogId that processes sharing the directory make step by step
  pc,            \* where the running CLI process is
  argv,          \* lazi: the words of the invocation (rawArgs)
  lookup,        \* the target a command looked up, and whether it printed that it is missing
  commandBatches,\* lazi: the sub-commands of the invocation
  i,             \* lazi batch: loop index (0-based, as in the code)
  eventId,       \* the id the start writer returned
  successCount,  \* lazi batch
  failureCount,  \* lazi batch
  running,       \* lazi batch: step numbers of the sub-commands now alive
  outcomes,      \* lazi batch: history, how each sub-command run so far ended
  childCode,     \* lazi batch: <<status>> once the live sub-command has set its exit status
  exitStatus,    \* status the last finished process ended with
  sbWorkflow,    \* scriptbuilder: the workflow loaded
  sbScriptType,  \* scriptbuilder: the script type asked for
  sbScript,      \* scriptbuilder: what generateScript gave
  storageDir,    \* Config.getStorageDir(): the directory disk is
  workflowFile,  \* scriptbuilder: the workflow file in the workflows directory, NoWorkflow if none
  tplTemplate,   \* templateEngine: the template text
  tplConfig,     \* templateEngine: the entries of config
  tplBranches,   \* templateEngine: the entries of branches
  rendered,      \* templateEngine: <<text>> once compileTemplate has returned text
  built          \* lazi build: the script in the file of --output, <<>> while none was written

logVars == <<disk, issued, given, allocs>>
laziVars == <<argv, lookup, commandBatches, i, successCount, failureCount, running, outcomes, childCode>>
sbVars == <<sbWorkflow, sbScriptType, sbScript, storageDir, workflowFile>>
tplVars == <<tplTemplate, tplConfig, tplBranches, rendered>>

vars == <<logVars, pc, eventId, exitStatus, laziVars, sbVars, tplVars, built>>

-----------------------------------------------------------------------------
(* Bounds *)

\* Spec: no process starts once this many ids have been issued
MaxId == 3

\* SpecFamily: no process starts once this many ids have been issued
MaxFamilyId == 10

-----------------------------------------------------------------------------
(* Numbers as text *)

Digit == <<"0", "1", "2", "3", "4", "5", "6", "7", "8", "9">>

DigitValue(d) == CHOOSE k \in 0..9 : Digit[k + 1] = d

RECURSIVE Dec(_)
\* Number.prototype.toString / template interpolation of a number
Dec(n) ==
  IF n < 0 THEN <<"-">> \o Dec(0 - n)
  ELSE IF n < 10 THEN <<Digit[n + 1]>>
  ELSE Dec(n \div 10) \o <<Digit[(n % 10) + 1]>>

RECURSIVE ParseInt(_)
\* parseInt(text, 10) of a text of decimal digits
ParseInt(t) ==
  IF Len(t) = 1 THEN DigitValue(t[1])
  ELSE 10 * ParseInt(SubSeq(t, 1, Len(t) - 1)) + DigitValue(t[Len(t)])

IsPrefix(p, t) == Len(p) <= Len(t) /\ SubSeq(t, 1, Len(p)) = p

-----------------------------------------------------------------------------
(* The log file *)

Line(tag, num, txt) == [tag |-> tag, num |-> num, txt |-> txt, arg |-> 0, body |-> <<>>]

Header(logId, marker, stepNumber, name) ==
  [tag |-> "Log", num |-> logId, txt |-> marker, arg |-> stepNumber, body |-> name]

LOG_SEPARATOR == Line("---", 0, "")

\* `Session: ${sessionId} | ${user}@${hostname} | ${workingDir}`
SessionLine(session) ==
  [Line("Session", 0, "") EXCEPT
     !.body = session.sessionId \o <<" | ">> \o session.user \o <<"@">>
              \o session.hostname \o <<" | ">> \o session.workingDir]

\* the session a process captures: process.ppid, os.userInfo().username,
\* os.hostname(), process.cwd(), process.env.SHELL
\* process.ppid.toString(): the decimal digits of a process id
ProcessSession ==
  [sessionId |-> Dec(41), user |-> <<"me">>, hostname |-> <<"box">>,
   workingDir |-> <<"/", "work">>, shell |-> "sh"]

\* the session of a sub-command of a batch: its parent is the lazi process
ChildSession == [ProcessSession EXCEPT !.sessionId = Dec(42)]

\* the processes that call getNextLogId step by step on one counter file
Procs == {1, 2}

\* a process that is in no call and has made none
NoCalls == [at |-> "out", saw |-> [exists |-> FALSE, counter |-> 0], stale |-> FALSE,
            calls |-> <<>>]

\* Date.now() when the first process starts: far above every counter value
Epoch == 1000

\* logWritable, counterWritable: whether fs lets the file be appended to /
\* read and written; now: the clock of the machine, what Date.now() returns
EmptyDisk ==
  [logExists |-> FALSE, logLines |-> <<>>, counterExists |-> FALSE, counterText |-> <<>>,
   logWritable |-> TRUE, counterWritable |-> TRUE, now |-> Epoch]

\* fs.appendFileSync(getLogFile(), logText): creates the file when it is absent
\* the mutant: fs.writeFileSync, the file is written over
writeFileSyncOver(d, logText) ==
  [d EXCEPT !.logExists = TRUE, !.logLines = logText]

appendFileSync(d, logText) ==
  [d EXCEPT !.logExists = TRUE, !.logLines = d.logLines \o logText]

\* the mutant: the new id is returned but the old value is written back
getNextLogIdStale(d) ==
  IF d.counterExists
  THEN [id |-> ParseInt(d.counterText) + 1, disk |-> d]
  ELSE [id |-> 1, disk |-> [d EXCEPT !.counterExists = TRUE, !.counterText = <<"1">>]]

\* Logger.getNextLogId: the id returned and the disk left behind; when fs
\* throws, the catch block returns Date.now()
getNextLogId(d) ==
  IF ~d.counterWritable THEN [id |-> d.now, disk |-> d]
  ELSE IF d.counterExists
  THEN LET counter == ParseInt(d.counterText)
           nextId == counter + 1
       IN [id |-> nextId, disk |-> [d EXCEPT !.counterText = Dec(nextId)]]
  ELSE [id |-> 1, disk |-> [d EXCEPT !.counterExists = TRUE, !.counterText = <<"1">>]]

\* the mutant: the writer returns its id although the append threw
TryAppendKeepsId(n, logText) ==
  IF n.disk.logWritable
  THEN [id |-> n.id, drawn |-> n.id, disk |-> appendFileSync(n.disk, logText)]
  ELSE [id |-> n.id, drawn |-> n.id, disk |-> n.disk]

\* the end of a writer: fs.appendFileSync(getLogFile(), logText) and return
\* logId, or, when the append throws, the catch block and return -1; drawn is
\* the id getNextLogId returned to the writer
TryAppend(n, logText) ==
  IF n.disk.logWritable
  THEN [id |-> n.id, drawn |-> n.id, disk |-> appendFileSync(n.disk, logText)]
  ELSE [id |-> -1, drawn |-> n.id, disk |-> n.disk]

\* exitCode || 0 on a close event's code (<<>> is null: ended by a signal)
OrZero(exitCode) == IF exitCode = <<>> THEN 0 ELSE exitCode[1]

\* exitCode || 1
OrOne(exitCode) == IF exitCode = <<>> \/ exitCode = <<0>> THEN 1 ELSE exitCode[1]

-----------------------------------------------------------------------------
(* Text payloads *)

RECURSIVE SplitText(_)
\* String.prototype.split('\n'): k newlines give k + 1 segments
SplitText(t) ==
  IF \A k \in 1..Len(t) : t[k] # "\n" THEN <<t>>
  ELSE LET k == CHOOSE j \in 1..Len(t) : t[j] = "\n" /\ \A h \in 1..(j - 1) : t[h] # "\n"
       IN <<SubSeq(t, 1, k - 1)>> \o SplitText(SubSeq(t, k + 1, Len(t)))

\* one line of payload text as it lies in the file: a payload line that is
\* exactly "---" is not told apart from the separator line
TextLine(pieces) ==
  IF pieces = <<"---">> THEN LOG_SEPARATOR
  ELSE [tag |-> "text", num |-> 0, txt |-> "", arg |-> 0, body |-> pieces]

\* what a line of payload is in the file: the text `---` at the end of a
\* line and the line feed after it are LOG_SEPARATOR to split, whatever is
\* before them on the line
FileLines(pieces) ==
  IF Len(pieces) > 1 /\ pieces[Len(pieces)] = "---"
  THEN <<TextLine(SubSeq(pieces, 1, Len(pieces) - 1)), LOG_SEPARATOR>>
  ELSE <<TextLine(pieces)>>

RECURSIVE ConcatLines(_)
ConcatLines(texts) ==
  IF texts = <<>> THEN <<>> ELSE FileLines(Head(texts)) \o ConcatLines(Tail(texts))

PayloadLines(t) == ConcatLines(SplitText(t))

\* `${label}:\n${text}`
Block(label, t) == <<Line(label, 0, "")>> \o PayloadLines(t)

-----------------------------------------------------------------------------
(* Logger: the writers.  Each gives the id returned and the disk left. *)

\* Logger.writeLog
writeLog(d, entry) ==
  LET n == IF entry.id # 0 THEN [id |-> entry.id, disk |-> d] ELSE getNextLogId(d)
      logId == n.id
      logText ==
        <<Header(logId, "", 0,
                 entry.commandName \o <<" ", "(">> \o entry.commandExecuted \o <<")">>),
          SessionLine(entry.sessionInfo),
          Line("Shell", 0, entry.sessionInfo.shell),
          Line("Exit Code", entry.exitCode, "")>>
        \o (IF entry.stdout # <<>> THEN Block("Output", entry.stdout)
            ELSE <<Line("Output", 0, "(no output)")>>)
        \o (IF entry.stderr # <<>> THEN Block("Errors", entry.stderr) ELSE <<>>)
        \o <<LOG_SEPARATOR>>
  IN TryAppend(n, logText)

\* Logger.startEventLog
startEventLog(d, scriptName, scriptType, totalSteps, scriptContent) ==
  LET n == getNextLogId(d)
      logText ==
        <<Header(n.id, "EVENT-START", 0, <<scriptName>>),
          Line("Event-Type", 0, "event-start"),
          Line("Script-Type", 0, scriptType),
          Line("Total-Steps", totalSteps, ""),
          SessionLine(ProcessSession),
          Line("Shell", 0, ProcessSession.shell)>>
        \o (IF scriptContent # <<>> THEN Block("Script-Content", scriptContent) ELSE <<>>)
        \o <<LOG_SEPARATOR>>
  IN TryAppend(n, logText)

\* Logger.writeStepLog
writeStepLog(d, parentEventId, stepNumber, stepName, stepCode) ==
  LET n == getNextLogId(d)
      logText ==
        <<Header(n.id, "STEP", stepNumber, <<stepName>>),
          Line("Event-Type", 0, "event-step"),
          Line("Parent-Event", parentEventId, "")>>
        \o (IF stepCode # <<>> THEN Block("Step-Code", stepCode) ELSE <<>>)
        \o <<LOG_SEPARATOR>>
  IN TryAppend(n, logText)

\* Logger.endEventLog
endEventLog(d, parentEventId, scriptName, overallExitCode, stdout, stderr) ==
  LET n == getNextLogId(d)
      logText ==
        <<Header(n.id, "EVENT-END", 0, <<scriptName>>),
          Line("Event-Type", 0, "event-end"),
          Line("Parent-Event", parentEventId, ""),
          Line("Overall-Exit-Code", overallExitCode, ""),
          Line("Total-Duration", 0, "")>>
        \o (IF stdout # <<>> THEN Block("Output", stdout)
            ELSE <<Line("Output", 0, "(no output)")>>)
        \o (IF stderr # <<>> THEN Block("Errors", stderr)
            ELSE <<Line("Errors", 0, "(none)")>>)
        \o <<LOG_SEPARATOR>>
  IN TryAppend(n, logText)

\* Logger.writeBatchStart
writeBatchStart(d, totalCommands, sessionInfo) ==
  LET n == getNextLogId(d)
      logText ==
        <<Header(n.id, "EVENT-START", 0, <<"Batch Execution">>),
          Line("Event-Type", 0, "batch-start"),
          Line("Total-Commands", totalCommands, ""),
          SessionLine(sessionInfo),
          Line("Shell", 0, sessionInfo.shell),
          LOG_SEPARATOR>>
  IN TryAppend(n, logText)

\* Logger.writeBatchStep; result is [exitCode, success, error], error "" when absent
writeBatchStep(d, parentEventId, stepNumber, commandName, fullCommand, result) ==
  LET n == getNextLogId(d)
      logText ==
        <<Header(n.id, "STEP", stepNumber, <<commandName>>),
          Line("Event-Type", 0, "batch-step"),
          Line("Parent-Event", parentEventId, ""),
          [Line("Command", 0, "") EXCEPT !.body = fullCommand],
          Line("Exit-Code", result.exitCode, ""),
          Line("Status", 0, IF result.success THEN "Success" ELSE "Failed")>>
        \o (IF result.error # "" THEN <<Line("Error", 0, result.error)>> ELSE <<>>)
        \o <<LOG_SEPARATOR>>
  IN TryAppend(n, logText)

\* the mutant: the end record is headed by the id of its event, no id is drawn
writeBatchEndParentId(d, parentEventId, stats) ==
  [id |-> parentEventId, drawn |-> parentEventId,
   disk |-> appendFileSync(d,
              <<Header(parentEventId, "EVENT-END", 0, <<"Batch Execution">>),
                Line("Event-Type", 0, "batch-end"),
                Line("Parent-Event", parentEventId, ""),
                Line("Total-Commands", stats.totalCommands, ""),
                Line("Successful", stats.successful, ""),
                Line("Failed", stats.failed, ""),
                Line("Duration", 0, ""),
                LOG_SEPARATOR>>)]

\* Logger.writeBatchEnd; stats is [totalCommands, successful, failed]
writeBatchEnd(d, parentEventId, stats) ==
  LET n == getNextLogId(d)
      logText ==
        <<Header(n.id, "EVENT-END", 0, <<"Batch Execution">>),
          Line("Event-Type", 0, "batch-end"),
          Line("Parent-Event", parentEventId, ""),
          Line("Total-Commands", stats.totalCommands, ""),
          Line("Successful", stats.successful, ""),
          Line("Failed", stats.failed, ""),
          Line("Duration", 0, ""),
          LOG_SEPARATOR>>
  IN TryAppend(n, logText)

-----------------------------------------------------------------------------
(* Logger: the readers *)

RECURSIVE SplitEntries(_)
\* normalized.split(LOG_SEPARATOR): the segments between separator lines
SplitEntries(lines) ==
  IF \A k \in 1..Len(lines) : lines[k].tag # "---" THEN <<lines>>
  ELSE LET k == CHOOSE j \in 1..Len(lines) :
                  lines[j].tag = "---" /\ \A h \in 1..(j - 1) : lines[h].tag # "---"
       IN <<SubSeq(lines, 1, k - 1)>> \o SplitEntries(SubSeq(lines, k + 1, Len(lines)))

\* e.trim() is empty: the segment holds nothing but empty lines
IsBlank(entry) == \A k \in 1..Len(entry) : entry[k].tag = "text" /\ entry[k].body = <<>>

RECURSIVE Filter(_, _)
\* Array.prototype.filter, Test(x) being a set membership
Filter(seq, keep) ==
  IF seq = <<>> THEN <<>>
  ELSE (IF Head(seq) \in keep THEN <<Head(seq)>> ELSE <<>>) \o Filter(Tail(seq), keep)

Range(seq) == {seq[k] : k \in 1..Len(seq)}

\* the entries every reader works on: split(LOG_SEPARATOR).filter(e => e.trim())
Entries(d) ==
  IF ~d.logExists THEN <<>>
  ELSE LET all == SplitEntries(d.logLines)
       IN Filter(all, {e \in Range(all) : ~IsBlank(e)})

\* entry.includes(`[Log-${id}]`)
IncludesLogId(entry, id) == \E k \in 1..Len(entry) : entry[k].tag = "Log" /\ entry[k].num = id

\* entry.includes('EVENT-START'): the marker of a header, or the word in the
\* text of any line
IncludesEventStart(entry) ==
  \E k \in 1..Len(entry) :
    \/ entry[k].tag = "Log" /\ entry[k].txt = "EVENT-START"
    \/ \E j \in 1..Len(entry[k].body) : entry[k].body[j] = "EVENT-START"

\* entry.includes(`Parent-Event: ${id}`): a substring test, so the digits of
\* id need only begin the digits of the line's number
IncludesParentEvent(entry, id) ==
  \E k \in 1..Len(entry) :
    entry[k].tag = "Parent-Event" /\ IsPrefix(Dec(id), Dec(entry[k].num))

\* Logger.getEventLogs
getEventLogs(d, parentEventId) ==
  LET entries == Entries(d)
      starts == {k \in 1..Len(entries) :
                   IncludesLogId(entries[k], parentEventId) /\ IncludesEventStart(entries[k])}
  IN IF starts = {} THEN <<>>
     ELSE LET eventStartEntry == entries[CHOOSE k \in starts : \A h \in starts : k <= h]
              relatedEntries ==
                Filter(entries, {e \in Range(entries) : IncludesParentEvent(e, parentEventId)})
          IN <<eventStartEntry>> \o relatedEntries

-----------------------------------------------------------------------------
(* templateEngine.js *)

\* config values as JSON gives them: a string, a number or null
StrVal(t) == [kind |-> "string", str |-> t, num |-> 0]
NumVal(n) == [kind |-> "number", str |-> <<>>, num |-> n]
NullVal == [kind |-> "null", str |-> <<>>, num |-> 0]

\* String(value ?? '')
Stringify(v) ==
  CASE v.kind = "null" -> <<>>
    [] v.kind = "number" -> Dec(v.num)
    [] OTHER -> v.str

\* the text the pattern \{\{key\}\} matches
Placeholder(key) == <<"{", "{", key, "}", "}">>

\* the text the pattern \{\{branches\.handleId\}\} matches
BranchPlaceholder(handleId) == <<"{", "{", "branches.", handleId, "}", "}">>

MatchesAt(t, k, pat) == k + Len(pat) - 1 <= Len(t) /\ SubSeq(t, k, k + Len(pat) - 1) = pat

RECURSIVE ReplaceAll(_, _, _)
\* result.replace(new RegExp(pat, 'g'), by): every match, left to right,
\* the scan going on after the match
ReplaceAll(t, pat, by) ==
  IF t = <<>> THEN <<>>
  ELSE IF MatchesAt(t, 1, pat)
       THEN by \o ReplaceAll(SubSeq(t, Len(pat) + 1, Len(t)), pat, by)
       ELSE <<t[1]>> \o ReplaceAll(Tail(t), pat, by)

RECURSIVE ReplaceFirst(_, _, _)
\* line.replace(pat, by) with a pattern that is not global: the first match only
ReplaceFirst(t, pat, by) ==
  IF t = <<>> THEN <<>>
  ELSE IF MatchesAt(t, 1, pat) THEN by \o SubSeq(t, Len(pat) + 1, Len(t))
       ELSE <<t[1]>> \o ReplaceFirst(Tail(t), pat, by)

\* placeholderRegex.test(line)
Contains(t, pat) == \E k \in 1..Len(t) : MatchesAt(t, k, pat)

IsSpace(c) == c \in {" ", "\t"}

RECURSIVE LeadingWhitespace(_)
\* line.match(/^(\s*)/)[1]
LeadingWhitespace(line) ==
  IF line # <<>> /\ IsSpace(line[1]) THEN <<line[1]>> \o LeadingWhitespace(Tail(line))
  ELSE <<>>

RECURSIVE JoinLines(_)
\* Array.prototype.join('\n')
JoinLines(ls) ==
  IF ls = <<>> THEN <<>>
  ELSE IF Len(ls) = 1 THEN ls[1]
  ELSE ls[1] \o <<"\n">> \o JoinLines(Tail(ls))

RECURSIVE SubstituteConfig(_, _)
\* the first loop of compileTemplate, over Object.entries(config) in order
SubstituteConfig(result, entries) ==
  IF entries = <<>> THEN result
  ELSE SubstituteConfig(
         ReplaceAll(result, Placeholder(Head(entries).key), Stringify(Head(entries).value)),
         Tail(entries))

\* the body of the loop over the lines for one branch
BranchLines(lines, handleId, branchCode) ==
  LET pat == BranchPlaceholder(handleId)
      bl == SplitText(branchCode)
      Indented(ws) == JoinLines([k \in 1..Len(bl) |-> IF k = 1 THEN bl[k] ELSE ws \o bl[k]])
      Out(k) ==
        IF Contains(lines[k], pat)
        THEN ReplaceFirst(lines[k], pat, Indented(LeadingWhitespace(lines[k]))) \o <<"\n">>
        ELSE lines[k] \o (IF k < Len(lines) THEN <<"\n">> ELSE <<>>)
      RECURSIVE Cat(_)
      Cat(k) == IF k > Len(lines) THEN <<>> ELSE Out(k) \o Cat(k + 1)
  IN Cat(1)

RECURSIVE SubstituteBranches(_, _)
\* the second loop of compileTemplate, over Object.entries(branches) in order
SubstituteBranches(result, entries) ==
  IF entries = <<>> THEN result
  ELSE SubstituteBranches(
         BranchLines(SplitText(result), Head(entries).key, Head(entries).value),
         Tail(entries))

\* compileTemplate: config and branches are the entry lists of the objects
compileTemplate(template, config, branches) ==
  SubstituteBranches(SubstituteConfig(template, config), branches)

RECURSIVE TrimStart(_)
TrimStart(t) == IF t # <<>> /\ (IsSpace(t[1]) \/ t[1] = "\n") THEN TrimStart(Tail(t)) ELSE t

RECURSIVE TrimEnd(_)
TrimEnd(t) ==
  IF t # <<>> /\ (IsSpace(t[Len(t)]) \/ t[Len(t)] = "\n")
  THEN TrimEnd(SubSeq(t, 1, Len(t) - 1)) ELSE t

\* String.prototype.trim
Trim(t) == TrimEnd(TrimStart(t))

-----------------------------------------------------------------------------
(* Logger: the readers that take a record apart *)

\* lastEntries.join(LOG_SEPARATOR) + (lastEntries.length > 0 ? LOG_SEPARATOR : '')
RECURSIVE JoinEntries(_)
JoinEntries(entries) ==
  IF entries = <<>> THEN <<>>
  ELSE Head(entries) \o <<LOG_SEPARATOR>> \o JoinEntries(Tail(entries))

\* the mutant: the first count entries, slice(0, count)
FirstOf(seq, count) ==
  IF count >= Len(seq) THEN seq ELSE SubSeq(seq, 1, count)

\* Array.prototype.slice(-count) for a count that is positive
LastOf(seq, count) ==
  IF count >= Len(seq) THEN seq ELSE SubSeq(seq, Len(seq) - count + 1, Len(seq))

\* Logger.readLogs: the lines of the text returned (count 0: no count given)
readLogs(d, count) ==
  IF ~d.logExists THEN <<>>
  ELSE IF count = 0 THEN d.logLines
  ELSE JoinEntries(LastOf(Entries(d), count))

\* entry.match(/\[Log-(\d+)\]/): the number of the first header of the entry,
\* <<>> when it holds none
LogIdMatch(entry) ==
  LET at == {k \in 1..Len(entry) : entry[k].tag = "Log"}
  IN IF at = {} THEN <<>> ELSE <<entry[CHOOSE k \in at : \A h \in at : k <= h].num>>

\* entry.includes('Event-Type:'), entry.includes(`Event-Type: ${kind}`)
IncludesEventType(entry) == \E k \in 1..Len(entry) : entry[k].tag = "Event-Type"

IncludesEventTypeOf(entry, kind) ==
  \E k \in 1..Len(entry) : entry[k].tag = "Event-Type" /\ entry[k].txt = kind

\* firstLine.match(/\[Log-\d+\] \[.*?\] (.*?) \((.*?)\)$/) on the text t that
\* follows the time stamp: the first group ends before the first " (", the
\* second runs to the ")" that ends the line; <<>> when there is no match
FullMatch(t) ==
  LET at == {k \in 1..(Len(t) - 2) : t[k] = " " /\ t[k + 1] = "("}
  IN IF at = {} \/ t[Len(t)] # ")" THEN <<>>
     ELSE LET k == CHOOSE j \in at : \A h \in at : j <= h
          IN <<SubSeq(t, 1, k - 1), SubSeq(t, k + 2, Len(t) - 1)>>

\* entry.match(/<label>:\n([\s\S]+?)(?=\n---|\n$)/)[1].trim(): the lines that
\* follow the label line, to the end of the entry, without the empty lines
\* at either end; <<>> when nothing follows
RECURSIVE TrimLines(_)
TrimLines(lines) ==
  IF lines = <<>> THEN <<>>
  ELSE IF Head(lines).tag = "text" /\ Head(lines).body = <<>> THEN TrimLines(Tail(lines))
  ELSE IF lines[Len(lines)].tag = "text" /\ lines[Len(lines)].body = <<>>
       THEN TrimLines(SubSeq(lines, 1, Len(lines) - 1))
  ELSE lines

\* the lookahead \n--- of the pattern: the lines up to the first line, after
\* the first, that begins with `---`
BeforeDashes(lines) ==
  LET at == {k \in 2..Len(lines) :
               lines[k].tag = "text" /\ lines[k].body # <<>> /\ lines[k].body[1] = "---"}
  IN IF at = {} THEN lines
     ELSE SubSeq(lines, 1, (CHOOSE k \in at : \A h \in at : k <= h) - 1)

ContentMatch(entry, label) ==
  LET at == {k \in 1..Len(entry) : entry[k].tag = label /\ entry[k].txt = ""}
  IN IF at = {} THEN <<>>
     ELSE TrimLines(BeforeDashes(
            SubSeq(entry, (CHOOSE k \in at : \A h \in at : k <= h) + 1, Len(entry))))

\* what getLogById returns: <<>> is null
NoLog == <<>>

FoundCommand(commandName, commandExecuted) ==
  <<[commandName |-> commandName, commandExecuted |-> commandExecuted, isEvent |-> FALSE,
     scriptType |-> "", scriptContent |-> <<>>]>>

FoundEvent(commandName, scriptType, scriptContent) ==
  <<[commandName |-> commandName, commandExecuted |-> <<>>, isEvent |-> TRUE,
     scriptType |-> scriptType, scriptContent |-> scriptContent]>>

\* the body of the loop of getLogById on an entry whose first header holds logId
LogOfEntry(entry) ==
  LET firstLine == entry[1]
      scriptNames == {k \in 1..Len(entry) :
                        entry[k].tag = "Log" /\ entry[k].txt = "EVENT-START" /\ entry[k].body # <<>>}
      scriptTypes == {k \in 1..Len(entry) : entry[k].tag = "Script-Type" /\ entry[k].txt # ""}
      fullMatch == FullMatch(firstLine.body)
  IN IF IncludesEventTypeOf(entry, "event-start")
     THEN IF scriptNames = {} \/ scriptTypes = {} THEN NoLog
          ELSE FoundEvent(Trim(entry[CHOOSE k \in scriptNames : \A h \in scriptNames : k <= h].body),
                          entry[CHOOSE k \in scriptTypes : \A h \in scriptTypes : k <= h].txt,
                          ContentMatch(entry, "Script-Content"))
     ELSE IF IncludesEventType(entry) THEN NoLog
     ELSE IF fullMatch # <<>> /\ fullMatch[1] # <<>> /\ fullMatch[2] # <<>>
     THEN FoundCommand(Trim(fullMatch[1]), Trim(fullMatch[2]))
     ELSE FoundCommand(Trim(firstLine.body), Trim(firstLine.body))

\* Logger.getLogById: the first entry of the id decides, unless it is no
\* event record and its first line is no header with text after the time
\* stamp (neither pattern matches, and the loop goes on)
getLogById(d, logId) ==
  LET entries == Entries(d)
      hits == {k \in 1..Len(entries) :
                 /\ LogIdMatch(entries[k]) = <<logId>>
                 /\ \/ IncludesEventType(entries[k])
                    \/ entries[k][1].tag = "Log" /\ entries[k][1].body # <<>>}
  IN IF hits = {} THEN NoLog
     ELSE LogOfEntry(entries[CHOOSE k \in hits : \A h \in hits : k <= h])

\* Logger.getAllEvents
getAllEvents(d) ==
  LET entries == Entries(d)
  IN Filter(entries, {e \in Range(entries) : IncludesEventStart(e)})

\* Array.prototype.slice(-count): -0 is 0, and slice(0) is the whole array
SliceLast(seq, count) == IF count = 0 THEN seq ELSE LastOf(seq, count)

\* Array.prototype.reverse
Reverse(seq) == [k \in 1..Len(seq) |-> seq[Len(seq) - k + 1]]

\* event.match(/EVENT-START: (.+?)$/m): a header line with the marker and a name
NameMatch(event) ==
  LET at == {k \in 1..Len(event) :
               event[k].tag = "Log" /\ event[k].txt = "EVENT-START" /\ event[k].body # <<>>}
  IN IF at = {} THEN <<>> ELSE <<event[CHOOSE k \in at : \A h \in at : k <= h].body>>

\* what the events command prints of one event: the id, the name, the type
\* ('unknown' when there is no Script-Type line) and the steps (<<>> is '?')
Displayed(event) ==
  LET types == {k \in 1..Len(event) : event[k].tag = "Script-Type" /\ event[k].txt # ""}
      steps == {k \in 1..Len(event) : event[k].tag = "Total-Steps"}
  IN [logId |-> LogIdMatch(event)[1],
      scriptName |-> NameMatch(event)[1],
      scriptType |-> IF types = {} THEN "unknown"
                     ELSE event[CHOOSE k \in types : \A h \in types : k <= h].txt,
      totalSteps |-> IF steps = {} THEN <<>>
                     ELSE <<event[CHOOSE k \in steps : \A h \in steps : k <= h].num>>]

RECURSIVE DisplayEach(_)
\* recentEvents.forEach: an event without id or name prints nothing
DisplayEach(events) ==
  IF events = <<>> THEN <<>>
  ELSE (IF LogIdMatch(Head(events)) # <<>> /\ NameMatch(Head(events)) # <<>>
        THEN <<Displayed(Head(events))>> ELSE <<>>)
       \o DisplayEach(Tail(events))

\* lazi events -n count: the events printed, from the first printed to the last
eventsCommand(d, count) == DisplayEach(Reverse(SliceLast(getAllEvents(d), count)))

\* Logger.clearLogs
\* text.includes(part), for texts in pieces
Includes(text, part) ==
  \E k \in 0..(Len(text) - Len(part)) : SubSeq(text, k + 1, k + Len(part)) = part

\* entry.includes(`Session: ${sessionId}`): the Session line begins with the
\* text, or a line holds the text somewhere
IncludesSession(entry, sessionId) ==
  \E k \in 1..Len(entry) :
    \/ entry[k].tag = "Session" /\ IsPrefix(sessionId, entry[k].body)
    \/ Includes(entry[k].body, <<"Session: ">> \o sessionId)

\* Logger.searchBySession
searchBySession(d, sessionId) ==
  IF ~d.logExists THEN <<>>
  ELSE LET entries == Entries(d)
           matchingEntries ==
             Filter(entries, {e \in Range(entries) : IncludesSession(e, sessionId)})
       IN JoinEntries(matchingEntries)

clearLogs(d) ==
  IF d.logExists THEN [d EXCEPT !.logExists = FALSE, !.logLines = <<>>] ELSE d

\* Logger.getLogCount
getLogCount(d) == Len(Entries(d))

\* what getStepCode returns: <<>> is null
NoStep == <<>>

FoundStep(stepNumber, stepName, parentEvent, stepCode) ==
  <<[stepNumber |-> stepNumber, stepName |-> stepName, parentEvent |-> parentEvent,
     stepCode |-> stepCode]>>

\* firstLine.match(/STEP-(\d+): (.+)/): the first line is a header with a
\* step number and a name
StepMatch(firstLine) ==
  firstLine.tag = "Log" /\ firstLine.txt = "STEP" /\ firstLine.body # <<>>

\* entry.match(/Parent-Event: (\d+)/): the number of the first such line,
\* <<>> when the entry holds none
ParentEventMatch(entry) ==
  LET at == {k \in 1..Len(entry) : entry[k].tag = "Parent-Event"}
  IN IF at = {} THEN <<>> ELSE <<entry[CHOOSE k \in at : \A h \in at : k <= h].num>>

\* the mutant: the kind of the entry is not looked at
StepOfEntryAnyKind(entry) ==
  IF ~StepMatch(entry[1]) \/ ParentEventMatch(entry) = <<>> THEN NoStep
  ELSE FoundStep(entry[1].arg, Trim(entry[1].body), ParentEventMatch(entry)[1],
                 ContentMatch(entry, "Step-Code"))

\* the body of the loop of getStepCode on an entry whose first header holds logId
StepOfEntry(entry) ==
  IF IncludesEventTypeOf(entry, "event-step")
  THEN IF ~StepMatch(entry[1]) \/ ParentEventMatch(entry) = <<>> THEN NoStep
       ELSE FoundStep(entry[1].arg, Trim(entry[1].body), ParentEventMatch(entry)[1],
                      ContentMatch(entry, "Step-Code"))
  ELSE NoStep

\* Logger.getStepCode: the first entry of the id decides
getStepCode(d, logId) ==
  LET entries == Entries(d)
      hits == {k \in 1..Len(entries) : LogIdMatch(entries[k]) = <<logId>>}
  IN IF hits = {} THEN NoStep
     ELSE StepOfEntry(entries[CHOOSE k \in hits : \A h \in hits : k <= h])

\* one element of what getStepsByEvent returns
StepItem(entry) ==
  [logId |-> LogIdMatch(entry)[1], stepNumber |-> entry[1].arg,
   stepName |-> Trim(entry[1].body), stepCode |-> ContentMatch(entry, "Step-Code")]

RECURSIVE StepsOf(_, _)
\* the loop of getStepsByEvent: the steps pushed, in the order of the entries
StepsOf(entries, parentId) ==
  IF entries = <<>> THEN <<>>
  ELSE LET entry == Head(entries)
       IN (IF /\ IncludesEventTypeOf(entry, "event-step")
              /\ ParentEventMatch(entry) = <<parentId>>
              /\ LogIdMatch(entry) # <<>> /\ StepMatch(entry[1])
           THEN <<StepItem(entry)>> ELSE <<>>)
          \o StepsOf(Tail(entries), parentId)

\* the mutant: the steps are left in the order they were pushed
Unsorted(steps) == steps

RECURSIVE SortByStepNumber(_)
\* steps.sort((a, b) => a.stepNumber - b.stepNumber): a stable sort
SortByStepNumber(steps) ==
  IF steps = <<>> THEN <<>>
  ELSE LET least == CHOOSE k \in 1..Len(steps) :
                      /\ \A h \in 1..Len(steps) : steps[k].stepNumber <= steps[h].stepNumber
                      /\ \A h \in 1..(k - 1) : steps[h].stepNumber # steps[k].stepNumber
       IN <<steps[least]>>
          \o SortByStepNumber(SubSeq(steps, 1, least - 1) \o SubSeq(steps, least + 1, Len(steps)))

\* Logger.getStepsByEvent
getStepsByEvent(d, parentId) == SortByStepNumber(StepsOf(Entries(d), parentId))

-----------------------------------------------------------------------------
(* Generators.  A generator source is a text; a function-form source is    *)
(* <<head, body>>, and what JavaScript makes of each body is tabulated.    *)

\* the heads /^\(.*?\)\s*=>/, /^config\s*=>/ and /^function\s*\(/ accept
FunctionHeads == {"(config, branches) =>", "config =>", "function (config, branches)"}

\* a thrown value: an Error with a message (a text), any other non-null value
\* (its .message is undefined), or null
ErrorOf(msg) == [isError |-> TRUE, nullish |-> FALSE, message |-> msg]
ThrownString == [isError |-> FALSE, nullish |-> FALSE, message |-> <<>>]
ThrownNull == [isError |-> FALSE, nullish |-> TRUE, message |-> <<>>]

Returned(t) == [ok |-> TRUE, text |-> t, thrown |-> ErrorOf(<<>>)]
Threw(e) == [ok |-> FALSE, text |-> <<>>, thrown |-> e]

\* what `new Function('return ' + source)()` gives for a source with this body
JsEval(body) ==
  CASE body = "{ return 'x' " ->
         [kind |-> "throws", thrown |-> ErrorOf(<<"Unexpected end of input">>)]
    [] body = "0, 5" -> [kind |-> "value", thrown |-> ErrorOf(<<>>)]
    [] OTHER -> [kind |-> "function", thrown |-> ErrorOf(<<>>)]

\* what a call of the function a body evaluates to does
JsCall(body) ==
  CASE body = "{ return 'echo ok'; }" -> Returned(<<"echo ok">>)
    [] body = "{ return null; }" -> Returned(<<>>)
    [] body = "{ throw new Error('boom'); }" -> Threw(ErrorOf(<<"boom">>))
    [] body = "{ throw new Error('no target\\nrm -rf build'); }" ->
         Threw(ErrorOf(<<"no target", "\n", "rm -rf build">>))
    [] body = "{ throw new Error(''); }" -> Threw(ErrorOf(<<>>))
    [] body = "{ throw 'oops'; }" -> Threw(ThrownString)
    [] body = "{ throw null; }" -> Threw(ThrownNull)
    [] OTHER -> Returned(<<>>)

\* `${prefix}${error.message || 'Unknown error'}`: reading .message of null throws
WithMessage(prefix, e) ==
  IF e.nullish
  THEN Threw(ErrorOf(<<"Cannot read properties of null (reading 'message')">>))
  ELSE Returned(<<prefix>> \o (IF e.message # <<>> THEN e.message ELSE <<"Unknown error">>))

\* the wrapper compileFunctionString returns, called
InvokeWrapper(body) ==
  LET r == JsCall(body)
  IN IF r.ok THEN r ELSE WithMessage("# Error: ", r.thrown)

IsFunctionString(trimmed) == trimmed # <<>> /\ trimmed[1] \in FunctionHeads

\* compileFunctionString: the generator it returns
compileFunctionString(functionString) ==
  LET trimmed == Trim(functionString)
      body == IF Len(functionString) >= 2 THEN functionString[2] ELSE ""
      failure ==
        IF ~IsFunctionString(trimmed)
        THEN ErrorOf(<<"Function string must be an arrow function or regular function">>)
        ELSE IF JsEval(body).kind = "throws" THEN JsEval(body).thrown
        ELSE ErrorOf(<<"Generator must be a function">>)
  IN IF IsFunctionString(trimmed) /\ JsEval(body).kind = "function"
     THEN [kind |-> "wrapper", body |-> body, text |-> <<>>]
     ELSE [kind |-> "constant", body |-> "",
           text |-> WithMessage("# Error compiling generator: ", failure).text]

\* createTemplateGenerator
createTemplateGenerator(template) == [kind |-> "template", body |-> "", text |-> template]

\* compileGenerator
compileGenerator(generatorString) ==
  LET trimmed == Trim(generatorString)
  IN IF IsFunctionString(trimmed) THEN compileFunctionString(trimmed)
     ELSE createTemplateGenerator(trimmed)

\* generator(config, branches)
Invoke(generator, config, branches) ==
  CASE generator.kind = "wrapper" -> InvokeWrapper(generator.body)
    [] generator.kind = "constant" -> Returned(generator.text)
    [] OTHER -> Returned(compileTemplate(generator.text, config, branches))

-----------------------------------------------------------------------------
(* scriptbuilder/cli.js: the custom nodes catalog and code generation *)

ScriptTypes == {"powershell", "bash"}

Both(source) == [t \in ScriptTypes |-> source]

Fn(body) == <<"(config, branches) =>", body>>

\* customNodesData.customNodes as loaded from .lazi-custom-nodes.json: a
\* generator source of <<>> is a generator the node does not have
customNodes ==
  (<<"custom-", "echo">> :> Both(<<"echo ", "{", "{", "message", "}", "}">>))
  @@ (<<"custom-", "ok">> :> Both(Fn("{ return 'echo ok'; }")))
  @@ (<<"custom-", "throw">> :> Both(Fn("{ throw new Error('boom'); }")))
  @@ (<<"custom-", "throw-lines">> :> Both(Fn("{ throw new Error('no target\\nrm -rf build'); }")))
  @@ (<<"custom-", "throw-empty">> :> Both(Fn("{ throw new Error(''); }")))
  @@ (<<"custom-", "throw-string">> :> Both(Fn("{ throw 'oops'; }")))
  @@ (<<"custom-", "throw-null">> :> Both(Fn("{ throw null; }")))
  @@ (<<"custom-", "syntax">> :> Both(Fn("{ return 'x' ")))
  @@ (<<"custom-", "value">> :> Both(Fn("0, 5")))
  @@ (<<"custom-", "ps-only">> :>
        [t \in ScriptTypes |-> IF t = "powershell" THEN <<"Write-Host ps">> ELSE <<>>])
  @@ (<<"custom-", "test-", "hello">> :> Both(<<"echo hello">>))
  @@ (<<"custom-", "if">> :>
        Both(<<"if ok; then", "\n", "  ">> \o BranchPlaceholder("true-path")
             \o <<"\n", "else", "\n", "  ">> \o BranchPlaceholder("false-path")
             \o <<"\n", "fi">>))

\* Config.DEFAULT_STORAGE_DIR
DEFAULT_STORAGE_DIR == "~/.lazi"

\* path.join(__dirname, '..', 'lazi-core-cli', 'storage'), the directory of
\* the log file generateNodeCode reads for a log node
RepoStorageDir == "lazi-core-cli/storage"

\* what is at RepoStorageDir when the Logger's directory holds d: the same
\* files if the storage directory is configured to be that one, and nothing
\* otherwise
RepoStorage(d) == IF storageDir = RepoStorageDir THEN d ELSE EmptyDisk

\* config[key], with "null" when the key is absent
ConfigValue(config, key) ==
  IF \E k \in 1..Len(config) : config[k].key = key
  THEN config[CHOOSE k \in 1..Len(config) : config[k].key = key].value
  ELSE NullVal

\* params.join(' ') over Object.values(config).filter(v => v !== undefined && v !== '')
RECURSIVE ParamsStr(_)
ParamsStr(config) ==
  IF config = <<>> THEN <<>>
  ELSE (IF Head(config).value = StrVal(<<>>) THEN <<>>
        ELSE <<" ">> \o Stringify(Head(config).value))
       \o ParamsStr(Tail(config))

\* the log node branch of generateNodeCode
LogNodeCode(d, config) ==
  LET logId == ConfigValue(config, "logId")
      entries == Entries(RepoStorage(d))
      hits == {k \in 1..Len(entries) :
                 /\ logId.kind = "number"
                 /\ LogIdMatch(entries[k]) = <<logId.num>>
                 /\ ~IncludesEventType(entries[k])
                 /\ entries[k][1].tag = "Log" /\ Trim(entries[k][1].body) # <<>>}
      firstLine == entries[CHOOSE k \in hits : \A h \in hits : k <= h][1]
      fullMatch == FullMatch(firstLine.body)
  IN IF logId.kind = "null" \/ logId = NumVal(0) \/ logId = StrVal(<<>>)
     THEN <<"# Error: No log ID specified for cmdregistry-log node">>
     ELSE IF ~RepoStorage(d).logExists THEN <<"# Error: Log file not found">>
     ELSE IF hits = {}
     THEN <<"# Error: Log-">> \o Stringify(logId) \o <<" not found or contains no command">>
     ELSE <<"# From Log-">> \o Stringify(logId) \o <<"\n">>
          \o (IF fullMatch # <<>> /\ fullMatch[2] # <<>> THEN Trim(fullMatch[2])
              ELSE Trim(firstLine.body))

\* the try/catch that ends generateNodeCode (branches are {} in the CLI)
TryGenerate(operationId, generatorString, config) ==
  LET generator == compileGenerator(generatorString)
      r == Invoke(generator, config, <<>>)
  IN IF r.ok THEN r
     ELSE Returned(<<"# Error generating code for ">> \o operationId
                   \o <<": ">> \o r.thrown.message)

\* generateNodeCode: the text returned, or the exception that leaves it, when
\* the Logger's directory holds d
generateNodeCode(d, node, scriptType) ==
  IF ~node.script THEN Returned(<<"# No script data available">>)
  ELSE
    LET operationId == node.op
        config == node.config
    IN IF operationId = <<"cmdregistry-log">> THEN Returned(LogNodeCode(d, config))
       ELSE IF operationId[1] = "lazi-"
       THEN LET commandName == Tail(operationId)
            IN Returned(<<"# Run lazi command: ">> \o commandName \o <<"\n", "lazi run ">>
                        \o commandName \o ParamsStr(config))
       ELSE
         LET key == IF operationId \in DOMAIN customNodes THEN operationId
                    ELSE IF operationId[1] # "custom-"
                    THEN <<"custom-", "test-">> \o operationId
                    ELSE operationId
         IN IF key \notin DOMAIN customNodes \/ customNodes[key][scriptType] = <<>>
            THEN Returned(<<"# TODO: Unknown operation ">> \o operationId)
            ELSE TryGenerate(operationId, customNodes[key][scriptType], config)

-----------------------------------------------------------------------------
(* scriptbuilder/cli.js: generateScript *)

\* a workflow is [name, nodes, edges]; a node is [id, name, script, op, config]
\* (script is whether node.data.script is there), an edge is [source, target]

\* the mutant: deps.unshift(edge.source), the dependencies in reverse edge order
DependenciesReversed(workflow, nodeId) ==
  IF \E k \in 1..Len(workflow.nodes) : workflow.nodes[k].id = nodeId
  THEN LET into == Filter(workflow.edges, {e \in Range(workflow.edges) : e.target = nodeId})
       IN [k \in 1..Len(into) |-> into[Len(into) + 1 - k].source]
  ELSE <<>>

\* dependencies.get(nodeId) || []: the sources of the edges into a declared
\* node, in edge order; nothing for an id that is no declared node
Dependencies(workflow, nodeId) ==
  IF \E k \in 1..Len(workflow.nodes) : workflow.nodes[k].id = nodeId
  THEN LET into == Filter(workflow.edges, {e \in Range(workflow.edges) : e.target = nodeId})
       IN [k \in 1..Len(into) |-> into[k].source]
  ELSE <<>>

RECURSIVE visit(_, _, _)
RECURSIVE visitEach(_, _, _)
\* the mutant: a node that was visited already is pushed once more
visitRepeats(st, workflow, nodeId) ==
  IF nodeId \in st.visited THEN [st EXCEPT !.sorted = Append(@, nodeId)]
  ELSE LET entered == [st EXCEPT !.visited = @ \cup {nodeId}]
           after == visitEach(entered, workflow, Dependencies(workflow, nodeId))
       IN [after EXCEPT !.sorted = Append(@, nodeId)]

\* function visit(nodeId), on the state st = [visited, sorted]
visit(st, workflow, nodeId) ==
  IF nodeId \in st.visited THEN st
  ELSE LET entered == [st EXCEPT !.visited = @ \cup {nodeId}]
           after == visitEach(entered, workflow, Dependencies(workflow, nodeId))
       IN [after EXCEPT !.sorted = Append(@, nodeId)]

\* ids.forEach(id => visit(id))
visitEach(st, workflow, ids) ==
  IF ids = <<>> THEN st
  ELSE visitEach(visit(st, workflow, Head(ids)), workflow, Tail(ids))

\* the mutant: a node is emitted before its dependencies are visited
topologicalSortPreOrder(workflow) ==
  LET RECURSIVE pre(_, _)
      pre(st, ids) ==
        IF ids = <<>> THEN st
        ELSE IF Head(ids) \in st.visited THEN pre(st, Tail(ids))
        ELSE pre(pre([visited |-> st.visited \cup {Head(ids)},
                      sorted |-> Append(st.sorted, Head(ids))],
                     Dependencies(workflow, Head(ids))),
                 Tail(ids))
  IN pre([visited |-> {}, sorted |-> <<>>],
         [k \in 1..Len(workflow.nodes) |-> workflow.nodes[k].id]).sorted

\* the topological sort of generateScript: the array sorted
topologicalSort(workflow) ==
  visitEach([visited |-> {}, sorted |-> <<>>], workflow,
            [k \in 1..Len(workflow.nodes) |-> workflow.nodes[k].id]).sorted

\* nodeMap.get(nodeId): the last declared node with the id
NodeOf(workflow, nodeId) ==
  workflow.nodes[CHOOSE k \in 1..Len(workflow.nodes) :
                   /\ workflow.nodes[k].id = nodeId
                   /\ \A h \in (k + 1)..Len(workflow.nodes) : workflow.nodes[h].id # nodeId]

ScriptHeader(scriptType) ==
  IF scriptType = "powershell"
  THEN <<"# PowerShell Script", "\n", "# Generated by ScriptBuilder CLI", "\n", "\n">>
  ELSE <<"#!/bin/bash", "\n", "# Generated by ScriptBuilder CLI", "\n", "set -e", "\n", "\n">>

\* the mutant: a node whose operation the catalog does not hold gets no section
EmittedKnownOnly(workflow) ==
  LET sorted == topologicalSort(workflow)
  IN Filter(sorted, {id \in Range(sorted) :
                       /\ \E k \in 1..Len(workflow.nodes) : workflow.nodes[k].id = id
                       /\ NodeOf(workflow, id).script
                       /\ \/ NodeOf(workflow, id).op[1] \in {"cmdregistry-log", "lazi-"}
                          \/ NodeOf(workflow, id).op \in DOMAIN customNodes})

\* the ids of sorted that the forEach of generateScript writes a section for
Emitted(workflow) ==
  LET sorted == topologicalSort(workflow)
  IN Filter(sorted, {id \in Range(sorted) :
                       /\ \E k \in 1..Len(workflow.nodes) : workflow.nodes[k].id = id
                       /\ NodeOf(workflow, id).script})

\* the text one node adds to the script
Section(node, code) ==
  <<"# ", node.name, "\n", "# Step: ", node.id, "\n">> \o code \o <<"\n", "\n">>

RECURSIVE Concat(_)
Concat(texts) == IF texts = <<>> THEN <<>> ELSE Head(texts) \o Concat(Tail(texts))

\* generateScript: [ok, sorted, sections, text]; ok is FALSE when an
\* exception of generateNodeCode ends it
generateScript(workflow, scriptType) ==
  LET ids == Emitted(workflow)
      codes == [k \in 1..Len(ids) |-> generateNodeCode(disk, NodeOf(workflow, ids[k]), scriptType)]
      sections == [k \in 1..Len(ids) |-> Section(NodeOf(workflow, ids[k]), codes[k].text)]
  IN IF \E k \in 1..Len(ids) : ~codes[k].ok
     THEN [ok |-> FALSE, sorted |-> topologicalSort(workflow), sections |-> <<>>, text |-> <<>>]
     ELSE [ok |-> TRUE, sorted |-> topologicalSort(workflow), sections |-> sections,
           text |-> ScriptHeader(scriptType) \o Concat(sections)]

-----------------------------------------------------------------------------
(* lazi (lazi-core-cli): dispatch, run/quick, and the batch orchestrator *)

RECURSIVE SplitFromAnyCase(_, _, _)
\* the mutant: the word then in lower case separates as well
SplitFromAnyCase(args, batches, current) ==
  IF args = <<>>
  THEN (IF Len(current) > 0 THEN Append(batches, current) ELSE batches)
  ELSE IF Head(args) \in {"THEN", "then"}
  THEN (IF Len(current) > 0 THEN SplitFromAnyCase(Tail(args), Append(batches, current), <<>>)
        ELSE SplitFromAnyCase(Tail(args), batches, current))
  ELSE SplitFromAnyCase(Tail(args), batches, Append(current, Head(args)))

RECURSIVE SplitFrom(_, _, _)
\* the loop of splitBatchCommands with its last push
SplitFrom(args, batches, current) ==
  IF args = <<>>
  THEN (IF Len(current) > 0 THEN Append(batches, current) ELSE batches)
  ELSE IF Head(args) = "THEN"
  THEN (IF Len(current) > 0 THEN SplitFrom(Tail(args), Append(batches, current), <<>>)
        ELSE SplitFrom(Tail(args), batches, current))
  ELSE SplitFrom(Tail(args), batches, Append(current, Head(args)))

\* splitBatchCommands
splitBatchCommands(args) == SplitFrom(args, <<>>, <<>>)

\* the commands of lazi that log their execution with writeLog
LoggingCommands == {"run", "quick"}

\* the commands registered with program.command
Commands ==
  {"add", "list", "search", "run", "quick", "rerun", "promote", "delete", "edit", "show",
   "logs", "events", "event", "step", "build", "idea", "config"}

\* no command has looked anything up
NoLookup == [program |-> "", command |-> "", target |-> <<>>, reported |-> FALSE]

NoWorkflow == [name |-> "", scriptType |-> "", nodes |-> <<>>, edges |-> <<>>]
NoBuild == <<>>
NoScript == [ok |-> TRUE, sorted |-> <<>>, sections |-> <<>>, text |-> <<>>]

\* a process starts with nothing of the one before it
FreshLazi ==
  /\ i' = 0
  /\ successCount' = 0
  /\ failureCount' = 0
  /\ running' = {}
  /\ outcomes' = <<>>
  /\ childCode' = <<>>

Fresh ==
  /\ FreshLazi
  /\ sbWorkflow' = NoWorkflow
  /\ sbScriptType' = "powershell"
  /\ sbScript' = NoScript
  /\ UNCHANGED <<storageDir, workflowFile>>

CanStart == pc \in {"idle", "exited"}

RECURSIVE JoinArgs(_)
\* args.join(' ')
JoinArgs(args) ==
  IF args = <<>> THEN <<>>
  ELSE IF Len(args) = 1 THEN <<args[1]>>
  ELSE <<args[1], " ">> \o JoinArgs(Tail(args))

\* quick: `${command} ${args.join(' ')}`, the words after the sub-command's name
quickFullCommand(batch) == JoinArgs(Tail(batch))

\* what a run/quick process does when the command it spawned closes
\* (types.ts 309-331, 390-412): the record written and the status it ends with
SingleEntry(command, exitCode, session) ==
  [id |-> 0, commandName |-> command, commandExecuted |-> command,
   exitCode |-> OrZero(exitCode),
   stdout |-> IF exitCode = <<0>> THEN <<"out">> ELSE <<>>,
   stderr |-> IF exitCode = <<1>> THEN <<"err">> ELSE <<>>,
   sessionInfo |-> session]

StatusAfterClose(exitCode) == IF exitCode # <<0>> THEN OrOne(exitCode) ELSE 0

CloseCodes == {<<0>>, <<1>>, <<>>}

\* lazi <args> with no THEN between two commands: program.parse() runs the
\* command; run and quick spawn theirs, a word that is no command is an error
LaziCommand(rawArgs) ==
  /\ CanStart
  /\ Len(splitBatchCommands(rawArgs)) = 1
  /\ argv' = rawArgs
  /\ lookup' = NoLookup
  /\ commandBatches' = splitBatchCommands(rawArgs)
  /\ Fresh
  /\ IF rawArgs[1] \in LoggingCommands
     THEN pc' = "cmd-wait" /\ exitStatus' = exitStatus
     ELSE pc' = "exited" /\ exitStatus' = IF rawArgs[1] \in Commands THEN 0 ELSE 1
  /\ eventId' = 0
  /\ UNCHANGED <<logVars, tplVars, built>>

\* childProcess.on('close') of run/quick
CommandClose(exitCode) ==
  /\ pc = "cmd-wait"
  /\ LET w == writeLog(disk, SingleEntry(quickFullCommand(argv), exitCode, ProcessSession))
     IN disk' = w.disk /\ issued' = Append(issued, w.drawn)
  /\ pc' = "exited"
  /\ exitStatus' = StatusAfterClose(exitCode)
  /\ UNCHANGED <<given, allocs, eventId, laziVars, sbVars, tplVars, built>>

\* childProcess.on('error') of run/quick
CommandError ==
  /\ pc = "cmd-wait"
  /\ pc' = "exited"
  /\ exitStatus' = 1
  /\ UNCHANGED <<logVars, eventId, laziVars, sbVars, tplVars, built>>

\* lazi with no command at all (no argument, or THEN only): neither the batch
\* branch nor program.parse() runs
LaziNothing(rawArgs) ==
  /\ CanStart
  /\ Len(splitBatchCommands(rawArgs)) = 0
  /\ argv' = rawArgs
  /\ lookup' = NoLookup
  /\ commandBatches' = <<>>
  /\ Fresh
  /\ pc' = "exited"
  /\ exitStatus' = 0
  /\ eventId' = 0
  /\ UNCHANGED <<logVars, tplVars, built>>

\* batch mode entered: writeBatchStart and the counters (types.ts 1724-1739)
BatchStart(rawArgs) ==
  /\ CanStart
  /\ Len(splitBatchCommands(rawArgs)) > 1
  /\ argv' = rawArgs
  /\ lookup' = NoLookup
  /\ commandBatches' = splitBatchCommands(rawArgs)
  /\ Fresh
  /\ LET w == writeBatchStart(disk, Len(splitBatchCommands(rawArgs)), ProcessSession)
     IN disk' = w.disk /\ issued' = Append(issued, w.drawn) /\ eventId' = w.id
  /\ pc' = "batch-loop"
  /\ UNCHANGED <<given, allocs, exitStatus, tplVars, built>>

\* how a sub-command ended: "close" with the code of the close event, "error"
\* (the child failed to spawn) or "throw" (spawn itself threw)
Outcome(step, how, exitCode) == [step |-> step, how |-> how, code |-> exitCode]

curBatch == commandBatches[i + 1]
curStep == i + 1

\* the mutant: the loop goes on without awaiting the child it spawned
BatchSpawnNoAwait ==
  /\ pc = "batch-loop"
  /\ i < Len(commandBatches)
  /\ running' = running \cup {curStep}
  /\ childCode' = <<>>
  /\ i' = i + 1
  /\ UNCHANGED <<logVars, pc, eventId, exitStatus, argv, lookup, commandBatches, successCount,
                 failureCount, outcomes, sbVars, tplVars, built>>

\* one turn of the loop up to the await: spawn(...) returns a child
BatchSpawn ==
  /\ pc = "batch-loop"
  /\ i < Len(commandBatches)
  /\ running' = running \cup {curStep}
  /\ childCode' = <<>>
  /\ pc' = "batch-wait"
  /\ UNCHANGED <<logVars, eventId, exitStatus, argv, lookup, commandBatches, i, successCount,
                 failureCount, outcomes, sbVars, tplVars, built>>

\* one turn of the loop in which spawn(...) throws: the catch block
BatchSpawnThrows ==
  /\ pc = "batch-loop"
  /\ i < Len(commandBatches)
  /\ failureCount' = failureCount + 1
  /\ LET w == writeBatchStep(disk, eventId, curStep, curBatch[1], curBatch,
                             [exitCode |-> 1, success |-> FALSE, error |-> "spawn"])
     IN disk' = w.disk /\ issued' = Append(issued, w.drawn)
  /\ outcomes' = Append(outcomes, Outcome(curStep, "throw", <<>>))
  /\ i' = i + 1
  /\ UNCHANGED <<given, allocs, pc, eventId, exitStatus, argv, lookup, commandBatches, successCount, running,
                 childCode, sbVars, tplVars, built>>

\* the sub-command, itself a lazi process, runs its run/quick command to the
\* end: it writes its single record and sets its exit status
ChildCommandClose(exitCode) ==
  /\ pc = "batch-wait"
  /\ childCode = <<>>
  /\ curBatch[1] \in LoggingCommands
  /\ LET w == writeLog(disk, SingleEntry(quickFullCommand(curBatch), exitCode, ChildSession))
     IN disk' = w.disk /\ issued' = Append(issued, w.drawn)
  /\ childCode' = <<StatusAfterClose(exitCode)>>
  /\ UNCHANGED <<given, allocs, pc, eventId, exitStatus, argv, lookup, commandBatches, i, successCount,
                 failureCount, running, outcomes, sbVars, tplVars, built>>

\* the codes the live sub-command can close with: the status it set, or, of a
\* command that logs nothing, 0 or 1; null when a signal ends it before that
ChildCloseCodes ==
  IF childCode # <<>> THEN {childCode}
  ELSE IF curBatch[1] \in LoggingCommands THEN {<<>>}
  ELSE CloseCodes

\* the mutant: a step counts as a success whatever its exit code
StepSucceededAlways(exitCode) == TRUE

\* const success = exitCode === 0
StepSucceeded(exitCode) == exitCode = <<0>>

\* child.on('close') and the resolve() that lets the loop go on
BatchChildClose(exitCode) ==
  /\ pc = "batch-wait"
  /\ exitCode \in ChildCloseCodes
  /\ LET success == StepSucceeded(exitCode)
         w == writeBatchStep(disk, eventId, curStep, curBatch[1], curBatch,
                             [exitCode |-> OrZero(exitCode), success |-> success,
                              error |-> ""])
     IN /\ successCount' = IF success THEN successCount + 1 ELSE successCount
        /\ failureCount' = IF success THEN failureCount ELSE failureCount + 1
        /\ disk' = w.disk /\ issued' = Append(issued, w.drawn)
  /\ running' = running \ {curStep}
  /\ outcomes' = Append(outcomes, Outcome(curStep, "close", exitCode))
  /\ i' = i + 1
  /\ pc' = "batch-loop"
  /\ UNCHANGED <<given, allocs, eventId, exitStatus, argv, lookup, commandBatches, childCode, sbVars, tplVars, built>>

\* the child fails to spawn: Node emits 'error' and then 'close' with the
\* negative errno as the code, so child.on('error') runs and child.on('close')
\* after it, before the loop goes on
BatchChildError ==
  /\ pc = "batch-wait"
  /\ childCode = <<>>
  /\ LET w1 == writeBatchStep(disk, eventId, curStep, curBatch[1], curBatch,
                              [exitCode |-> 1, success |-> FALSE, error |-> "spawn"])
         exitCode == <<-2>>
         success == StepSucceeded(exitCode)
         w2 == writeBatchStep(w1.disk, eventId, curStep, curBatch[1], curBatch,
                              [exitCode |-> OrZero(exitCode), success |-> success,
                               error |-> ""])
     IN /\ successCount' = IF success THEN successCount + 1 ELSE successCount
        /\ failureCount' = failureCount + 1 + (IF success THEN 0 ELSE 1)
        /\ disk' = w2.disk /\ issued' = issued \o <<w1.drawn, w2.drawn>>
  /\ running' = running \ {curStep}
  /\ outcomes' = Append(outcomes, Outcome(curStep, "error", <<>>))
  /\ i' = i + 1
  /\ pc' = "batch-loop"
  /\ UNCHANGED <<given, allocs, eventId, exitStatus, argv, lookup, commandBatches, childCode, sbVars, tplVars, built>>

\* process.exit(failureCount > 0 ? 1 : 0)
BatchExitCode(failures) == IF failures > 0 THEN 1 ELSE 0

\* the mutant: the batch is ended at the top of any turn of the loop
BatchEndEarly ==
  /\ pc = "batch-loop"
  /\ LET w == writeBatchEnd(disk, eventId,
                            [totalCommands |-> Len(commandBatches),
                             successful |-> successCount, failed |-> failureCount])
     IN disk' = w.disk /\ issued' = Append(issued, w.drawn)
  /\ pc' = "exited"
  /\ exitStatus' = BatchExitCode(failureCount)
  /\ UNCHANGED <<given, allocs, eventId, laziVars, sbVars, tplVars, built>>

\* after the loop: writeBatchEnd and process.exit (types.ts 1809-1830)
BatchEnd ==
  /\ pc = "batch-loop"
  /\ i = Len(commandBatches)
  /\ LET w == writeBatchEnd(disk, eventId,
                            [totalCommands |-> Len(commandBatches),
                             successful |-> successCount, failed |-> failureCount])
     IN disk' = w.disk /\ issued' = Append(issued, w.drawn)
  /\ pc' = "exited"
  /\ exitStatus' = BatchExitCode(failureCount)
  /\ UNCHANGED <<given, allocs, eventId, laziVars, sbVars, tplVars, built>>

-----------------------------------------------------------------------------
(* scriptbuilder: generate and run *)

\* options.type || workflow.metadata?.scriptType || 'powershell'
ChosenType(typeOption, wf) ==
  IF typeOption # "" THEN typeOption
  ELSE IF wf.scriptType # "" THEN wf.scriptType
  ELSE "powershell"

\* scriptbuilder generate <name> [--type t]
SbGenerate(typeOption) ==
  /\ pc = "loaded"
  /\ sbScriptType' = ChosenType(typeOption, sbWorkflow)
  /\ sbScript' = generateScript(sbWorkflow, ChosenType(typeOption, sbWorkflow))
  /\ pc' = "exited"
  /\ exitStatus' = 0
  /\ UNCHANGED <<logVars, eventId, laziVars, sbWorkflow, storageDir, workflowFile, tplVars, built>>

RECURSIVE StepLogs(_, _, _, _, _, _)
\* nodes.forEach((node, index) => logger.writeStepLog(eventId, index + 1, ...)):
\* the disk left and the ids returned, from node `index` (1-based) on
StepLogs(d, ids, parentEventId, wf, type, index) ==
  IF index > Len(wf.nodes) THEN [disk |-> d, ids |-> ids]
  ELSE LET node == wf.nodes[index]
           nodeName == IF node.script THEN node.name ELSE "Step"
           nodeCode == generateNodeCode(d, node, type).text
           w == writeStepLog(d, parentEventId, index, nodeName, nodeCode)
       IN StepLogs(w.disk, Append(ids, w.drawn), parentEventId, wf, type, index + 1)

\* scriptbuilder run <name> [--no-log], up to the spawn of the script
\* (cli.js 346-397)
SbRun(wf, log) ==
  /\ CanStart
  /\ FreshLazi
  /\ argv' = <<>>
  /\ lookup' = NoLookup
  /\ commandBatches' = <<>>
  /\ LET type == ChosenType("", wf)
         generated == generateScript(wf, type)
     IN /\ sbWorkflow' = wf
        /\ sbScriptType' = type
        /\ sbScript' = generated
        /\ IF log
           THEN LET w == startEventLog(disk, wf.name, type, Len(wf.nodes), generated.text)
                    st == StepLogs(w.disk, <<w.drawn>>, w.id, wf, type, 1)
                IN eventId' = w.id /\ disk' = st.disk /\ issued' = issued \o st.ids
           ELSE eventId' = 0 /\ UNCHANGED <<disk, issued>>
  /\ pc' = "run-wait"
  /\ UNCHANGED <<given, allocs, exitStatus, storageDir, workflowFile, tplVars, built>>

\* childProcess.on('close') of scriptbuilder run (cli.js 419-449)
SbRunClose(exitCode) ==
  /\ pc = "run-wait"
  /\ IF eventId # 0
     THEN LET w == endEventLog(disk, eventId, sbWorkflow.name, OrZero(exitCode),
                               IF exitCode = <<0>> THEN <<"out">> ELSE <<>>,
                               IF exitCode = <<1>> THEN <<"err">> ELSE <<>>)
          IN disk' = w.disk /\ issued' = Append(issued, w.drawn)
     ELSE UNCHANGED <<disk, issued>>
  /\ pc' = "exited"
  /\ exitStatus' = StatusAfterClose(exitCode)
  /\ UNCHANGED <<given, allocs, eventId, laziVars, sbVars, tplVars, built>>

\* childProcess.on('error') of scriptbuilder run: process.exit(1)
SbRunError ==
  /\ pc = "run-wait"
  /\ pc' = "exited"
  /\ exitStatus' = 1
  /\ UNCHANGED <<logVars, eventId, laziVars, sbVars, tplVars, built>>

-----------------------------------------------------------------------------
(* templateEngine: a call of compileTemplate *)

Render ==
  /\ pc = "template"
  /\ rendered' = <<compileTemplate(tplTemplate, tplConfig, tplBranches)>>
  /\ pc' = "exited"
  /\ UNCHANGED <<logVars, eventId, exitStatus, laziVars, sbVars, tplTemplate,
                 tplConfig, tplBranches, built>>

-----------------------------------------------------------------------------
(* The file system refusing the files *)

\* from now on fs.appendFileSync on the log file throws
FsLogFails ==
  /\ disk.logWritable
  /\ disk' = [disk EXCEPT !.logWritable = FALSE]
  /\ UNCHANGED <<issued, given, allocs, pc, eventId, exitStatus, laziVars, sbVars, tplVars, built>>

\* from now on fs.appendFileSync on the log file works again
FsLogRecovers ==
  /\ ~disk.logWritable
  /\ disk' = [disk EXCEPT !.logWritable = TRUE]
  /\ UNCHANGED <<issued, given, allocs, pc, eventId, exitStatus, laziVars, sbVars, tplVars, built>>

\* from now on fs throws when the counter file is read or written
FsCounterFails ==
  /\ disk.counterWritable
  /\ disk' = [disk EXCEPT !.counterWritable = FALSE]
  /\ UNCHANGED <<issued, given, allocs, pc, eventId, exitStatus, laziVars, sbVars, tplVars, built>>

\* from now on the counter file can be read and written again
FsCounterRecovers ==
  /\ ~disk.counterWritable
  /\ disk' = [disk EXCEPT !.counterWritable = TRUE]
  /\ UNCHANGED <<issued, given, allocs, pc, eventId, exitStatus, laziVars, sbVars, tplVars, built>>

\* the clock moves on no further than this many milliseconds
MaxTicks == 2

\* a millisecond passes
ClockTick ==
  /\ disk.now < Epoch + MaxTicks
  /\ disk' = [disk EXCEPT !.now = @ + 1]
  /\ UNCHANGED <<issued, given, allocs, pc, eventId, exitStatus, laziVars, sbVars, tplVars, built>>

-----------------------------------------------------------------------------
(* getNextLogId step by step, in processes that share the counter file *)

\* no process makes more calls than this
MaxCalls == 2

\* the mutant: the id is taken from the file as it is at the write-back
NextIdOfFile(saw, d) ==
  IF d.counterExists THEN ParseInt(d.counterText) + 1 ELSE 1

\* const nextId = counter + 1, or 1 when the file was not there: the id
\* depends on what the call saw, not on the file d as it is by now
NextIdOf(saw, d) ==
  IF saw.exists THEN saw.counter + 1 ELSE 1

\* fs.existsSync(counterFile) and, if so, parseInt(fs.readFileSync(...))
AllocRead(p) ==
  /\ pc = "api"
  /\ allocs[p].at = "out"
  /\ Len(allocs[p].calls) < MaxCalls
  /\ allocs' = [allocs EXCEPT
                  ![p].at = "read",
                  ![p].saw = [exists |-> disk.counterExists,
                              counter |-> IF disk.counterExists
                                          THEN ParseInt(disk.counterText) ELSE 0],
                  ![p].stale = FALSE]
  /\ UNCHANGED <<disk, issued, given, pc, eventId, exitStatus, laziVars, sbVars, tplVars, built>>

\* fs.writeFileSync(counterFile, nextId.toString()) and return nextId; a call
\* of another process that has read and not yet written is stale from now on
AllocWrite(p) ==
  /\ pc = "api"
  /\ allocs[p].at = "read"
  /\ LET nextId == NextIdOf(allocs[p].saw, disk)
     IN /\ disk' = [disk EXCEPT !.counterExists = TRUE, !.counterText = Dec(nextId)]
        /\ issued' = Append(issued, nextId)
        /\ allocs' = [q \in Procs |->
                        IF q = p
                        THEN [allocs[q] EXCEPT
                                !.at = "out",
                                !.calls = Append(@, [saw |-> allocs[p].saw, id |-> nextId,
                                                     stale |-> allocs[p].stale])]
                        ELSE IF allocs[q].at = "read"
                        THEN [allocs[q] EXCEPT !.stale = TRUE]
                        ELSE allocs[q]]
  /\ UNCHANGED <<given, pc, eventId, exitStatus, laziVars, sbVars, tplVars, built>>

\* the storage directory as the call of process p in getNextLogId has read
\* it: the counter file it saw, and the log file as it is by now
SeenDisk(p) ==
  [disk EXCEPT !.counterExists = allocs[p].saw.exists,
               !.counterText = IF allocs[p].saw.exists THEN Dec(allocs[p].saw.counter)
                               ELSE <<>>]

\* the batch invocation p: its command, run twice, and its session; the
\* commands of the first batch exit with 0, those of the second with 1
BatchCommandOf(p) == IF p = 1 THEN "list" ELSE "idea"
BatchSessionOf(p) == IF p = 1 THEN ProcessSession ELSE ChildSession

\* the writer the batch invocation p calls next, on the directory d: the
\* first call is writeBatchStart, then one writeBatchStep for each of the two
\* commands, then writeBatchEnd (types.ts 1729-1817)
BatchWriter(p, d) ==
  LET k == Len(allocs[p].calls) + 1
      batchEventId == IF k = 1 THEN 0 ELSE allocs[p].calls[1].id
  IN IF k = 1 THEN writeBatchStart(d, 2, BatchSessionOf(p))
     ELSE IF k <= 3
     THEN writeBatchStep(d, batchEventId, k - 1, BatchCommandOf(p),
                         <<BatchCommandOf(p)>>,
                         [exitCode |-> p - 1, success |-> p = 1, error |-> ""])
     ELSE writeBatchEnd(d, batchEventId,
                        [totalCommands |-> 2, successful |-> IF p = 1 THEN 2 ELSE 0,
                         failed |-> IF p = 1 THEN 0 ELSE 2])

\* the rest of a writer of the batch invocation p after getNextLogId has
\* read the counter file: the counter is written back, the record appended
BatchWrite(p) ==
  /\ pc = "api"
  /\ allocs[p].at = "read"
  /\ LET w == BatchWriter(p, SeenDisk(p))
     IN /\ disk' = w.disk
        /\ issued' = Append(issued, w.drawn)
        /\ allocs' = [q \in Procs |->
                        IF q = p
                        THEN [allocs[q] EXCEPT
                                !.at = "out",
                                !.calls = Append(@, [saw |-> allocs[p].saw, id |-> w.drawn,
                                                     stale |-> allocs[p].stale])]
                        ELSE IF allocs[q].at = "read"
                        THEN [allocs[q] EXCEPT !.stale = TRUE]
                        ELSE allocs[q]]
  /\ UNCHANGED <<given, pc, eventId, exitStatus, laziVars, sbVars, tplVars, built>>

-----------------------------------------------------------------------------
(* The commands that look a target up *)

Looked(program, command, target, reported) ==
  [program |-> program, command |-> command, target |-> target, reported |-> reported]

\* a lazi process started on the words of one command
LaziStarts(words) ==
  /\ CanStart
  /\ Fresh
  /\ argv' = words
  /\ commandBatches' = <<words>>
  /\ eventId' = 0

\* the process ends: process.exit(status), or the action returns (status 0)
Ends(status) == pc' = "exited" /\ exitStatus' = status

\* `${ids[1]},${ids[2]},...`: the value of --from-steps
RECURSIVE JoinIds(_)
JoinIds(ids) ==
  IF Len(ids) = 1 THEN Dec(ids[1]) ELSE Dec(ids[1]) \o <<",">> \o JoinIds(Tail(ids))

\* lazi rerun <id>, up to the spawn of the command or script of the log
LaziRerun(logId) ==
  /\ LaziStarts(<<"rerun">> \o Dec(logId))
  /\ LET logEntry == getLogById(disk, logId)
     IN IF logId <= 0 \/ logEntry = NoLog
        THEN lookup' = Looked("lazi", "rerun", Dec(logId), TRUE) /\ Ends(1)
        ELSE /\ lookup' = Looked("lazi", "rerun", Dec(logId), FALSE)
             /\ IF logEntry[1].isEvent
                THEN IF logEntry[1].scriptContent = <<>>
                     THEN Ends(1)
                     ELSE pc' = "rerun-wait" /\ exitStatus' = exitStatus
                ELSE IF logEntry[1].commandExecuted = <<>>
                     THEN Ends(1)
                     ELSE pc' = "rerun-wait" /\ exitStatus' = exitStatus
  /\ UNCHANGED <<logVars, tplVars, built>>

\* the LogEntry childProcess.on('close') of rerun hands to writeLog
RerunEntry(logId, logEntry, exitCode, session) ==
  [id |-> 0,
   commandName |->
     IF logEntry.isEvent
     THEN <<"rerun-event-">> \o Dec(logId) \o <<" ", "(">> \o logEntry.commandName \o <<")">>
     ELSE <<"rerun-">> \o Dec(logId) \o <<" ", "(">> \o logEntry.commandName \o <<")">>,
   commandExecuted |->
     IF logEntry.isEvent
     THEN <<"Event rerun: ", IF logEntry.scriptType = "" THEN "unknown" ELSE logEntry.scriptType,
            " script">>
     ELSE logEntry.commandExecuted,
   exitCode |-> OrZero(exitCode),
   stdout |-> IF exitCode = <<0>> THEN <<"out">> ELSE <<>>,
   stderr |-> IF exitCode = <<1>> THEN <<"err">> ELSE <<>>,
   sessionInfo |-> session]

\* childProcess.on('close') of rerun
RerunClose(exitCode) ==
  /\ pc = "rerun-wait"
  /\ LET logId == ParseInt(lookup.target)
         w == writeLog(disk, RerunEntry(logId, getLogById(disk, logId)[1], exitCode,
                                        ProcessSession))
     IN disk' = w.disk /\ issued' = Append(issued, w.drawn)
  /\ Ends(StatusAfterClose(exitCode))
  /\ UNCHANGED <<given, allocs, eventId, laziVars, sbVars, tplVars, built>>

\* childProcess.on('error') of rerun
RerunError ==
  /\ pc = "rerun-wait"
  /\ Ends(1)
  /\ UNCHANGED <<logVars, eventId, laziVars, sbVars, tplVars, built>>

\* lazi promote <logId> <name>; taken: a command of that name is registered
LaziPromote(logId, taken) ==
  /\ LaziStarts(<<"promote">> \o Dec(logId) \o <<"name">>)
  /\ LET logEntry == getLogById(disk, logId)
     IN IF logId <= 0 \/ logEntry = NoLog
        THEN lookup' = Looked("lazi", "promote", Dec(logId), TRUE) /\ Ends(1)
        ELSE /\ lookup' = Looked("lazi", "promote", Dec(logId), FALSE)
             /\ IF logEntry[1].isEvent THEN Ends(1)
                ELSE IF logEntry[1].commandExecuted = <<>> /\ logEntry[1].commandName = <<>>
                THEN Ends(1)
                ELSE IF taken THEN Ends(1)
                ELSE Ends(0)
  /\ UNCHANGED <<logVars, tplVars, built>>

\* lazi event <id>
LaziEvent(id) ==
  /\ LaziStarts(<<"event">> \o Dec(id))
  /\ lookup' = Looked("lazi", "event", Dec(id), getEventLogs(disk, id) = <<>>)
  /\ Ends(0)
  /\ UNCHANGED <<logVars, tplVars, built>>

\* lazi step <id>
LaziStep(id) ==
  /\ LaziStarts(<<"step">> \o Dec(id))
  /\ lookup' = Looked("lazi", "step", Dec(id), getStepCode(disk, id) = NoStep)
  /\ Ends(0)
  /\ UNCHANGED <<logVars, tplVars, built>>

\* lazi build --from-steps <ids>
LaziBuild(stepIds) ==
  /\ LaziStarts(<<"build", "--from-steps">> \o JoinIds(stepIds))
  /\ lookup' = Looked("lazi", "build", JoinIds(stepIds),
                      \E k \in 1..Len(stepIds) : getStepCode(disk, stepIds[k]) = NoStep)
  /\ Ends(0)
  /\ UNCHANGED <<logVars, tplVars, built>>

\* the header of the script build writes (types.ts 1133-1140)
BuildHeader(scriptType) ==
  IF scriptType = "powershell"
  THEN <<"# PowerShell Script", "\n", "# Generated by Lazi Core-CLI", "\n">>
  ELSE <<"#!/bin/bash", "\n", "# Generated by Lazi Core-CLI", "\n", "set -e", "\n">>

\* the type of the parent event of a step (types.ts 1083-1092): the
\* Script-Type line of the first entry getEventLogs returns, 'powershell'
\* when there is none
EventScriptType(d, parentEvent) ==
  LET eventLogs == getEventLogs(d, parentEvent)
      types == IF eventLogs = <<>> THEN {}
               ELSE {k \in 1..Len(eventLogs[1]) :
                       eventLogs[1][k].tag = "Script-Type" /\ eventLogs[1][k].txt # ""}
  IN IF types = {} THEN "powershell"
     ELSE eventLogs[1][CHOOSE k \in types : \A h \in types : k <= h].txt

\* the mutant: an id that is no step is skipped as a step without code is
BuildErrorSkipped(stepInfo) == FALSE

\* `✗ Log-${id}: Not found or not a step entry`: errors = true
BuildError(stepInfo) == stepInfo = NoStep

RECURSIVE BuildSteps(_, _)
\* the loop over stepIds (types.ts 1067-1103): whether an id was no step,
\* and the steps pushed
BuildSteps(d, stepIds) ==
  IF stepIds = <<>> THEN [errors |-> FALSE, steps |-> <<>>]
  ELSE LET id == Head(stepIds)
           stepInfo == getStepCode(d, id)
           rest == BuildSteps(d, Tail(stepIds))
       IN IF BuildError(stepInfo) THEN [rest EXCEPT !.errors = TRUE]
          ELSE IF stepInfo = NoStep \/ stepInfo[1].stepCode = <<>> THEN rest
          ELSE [rest EXCEPT !.steps =
                  <<[logId |-> id, stepNumber |-> stepInfo[1].stepNumber,
                     stepName |-> stepInfo[1].stepName, stepCode |-> stepInfo[1].stepCode,
                     scriptType |-> EventScriptType(d, stepInfo[1].parentEvent)]>> \o @]

\* the text of the lines of a record that a pattern matched
CodeText(lines) == JoinLines([k \in 1..Len(lines) |-> lines[k].body])

RECURSIVE JoinSourceSteps(_)
\* stepIds.join(', ')
JoinSourceSteps(ids) ==
  IF Len(ids) = 1 THEN Dec(ids[1]) ELSE Dec(ids[1]) \o <<", ">> \o JoinSourceSteps(Tail(ids))

RECURSIVE BuildSections(_, _)
\* steps.forEach((step, index) => ...) from the step `index` (1-based) on
BuildSections(steps, index) ==
  IF index > Len(steps) THEN <<>>
  ELSE <<"# Step ">> \o Dec(index) \o <<" (from Log-">> \o Dec(steps[index].logId) \o <<": ">>
       \o steps[index].stepName \o <<")", "\n">>
       \o CodeText(steps[index].stepCode) \o <<"\n", "\n">>
       \o BuildSections(steps, index + 1)

\* the action of build (types.ts 1044-1175) on the directory d: NoBuild when
\* it returns before the script is put out, or the script, the steps it is
\* made of and the type of its header
buildScript(d, stepIds, typeOption) ==
  LET found == BuildSteps(d, stepIds)
  IN IF found.errors \/ found.steps = <<>> THEN NoBuild
     ELSE LET scriptType == IF typeOption # "" THEN typeOption ELSE found.steps[1].scriptType
          IN <<[scriptType |-> scriptType,
                steps |-> found.steps,
                text |-> BuildHeader(scriptType)
                         \o <<"# Script Name: ", "Combined Script", "\n">>
                         \o <<"# Generated: ">> \o Dec(d.now) \o <<"\n">>
                         \o <<"# Source Steps: ">> \o JoinSourceSteps(stepIds) \o <<"\n", "\n">>
                         \o BuildSections(found.steps, 1)]>>

\* --type <t>, and no --type
TypeWords(typeOption) == IF typeOption = "" THEN <<>> ELSE <<"--type", typeOption>>

\* lazi build --from-steps <ids> [--type t] -o <file>
LaziBuildTo(stepIds, typeOption) ==
  /\ LaziStarts(<<"build", "--from-steps">> \o JoinIds(stepIds) \o TypeWords(typeOption)
                \o <<"-o", "out">>)
  /\ lookup' = Looked("lazi", "build", JoinIds(stepIds),
                      \E k \in 1..Len(stepIds) : getStepCode(disk, stepIds[k]) = NoStep)
  /\ LET script == buildScript(disk, stepIds, typeOption)
     IN built' = IF script = NoBuild THEN built ELSE script
  /\ Ends(0)
  /\ UNCHANGED <<logVars, tplVars>>

\* a scriptbuilder process started
SbStarts ==
  /\ CanStart
  /\ Fresh
  /\ argv' = <<>>
  /\ commandBatches' = <<>>
  /\ eventId' = 0

\* scriptbuilder show|generate|run <name> with no file <name>.json in the
\* workflows directory: loadWorkflow ends the process
SbLoadWorkflowMissing(command, name) ==
  /\ SbStarts
  /\ lookup' = Looked("scriptbuilder", command, <<name>>, TRUE)
  /\ Ends(1)
  /\ UNCHANGED <<logVars, tplVars, built>>

\* scriptbuilder show <name> of a saved workflow
SbShow(wf) ==
  /\ CanStart
  /\ FreshLazi
  /\ argv' = <<>>
  /\ commandBatches' = <<>>
  /\ eventId' = 0
  /\ sbWorkflow' = wf
  /\ sbScriptType' = "powershell"
  /\ sbScript' = NoScript
  /\ lookup' = Looked("scriptbuilder", "show", <<wf.name>>, FALSE)
  /\ Ends(0)
  /\ UNCHANGED <<logVars, storageDir, workflowFile, tplVars, built>>

\* scriptbuilder node show <id>
SbNodeShow(id) ==
  /\ SbStarts
  /\ lookup' = Looked("scriptbuilder", "node show", id, id \notin DOMAIN customNodes)
  /\ Ends(IF id \in DOMAIN customNodes THEN 0 ELSE 1)
  /\ UNCHANGED <<logVars, tplVars, built>>

-----------------------------------------------------------------------------
(* Direct calls of the Logger's writers, with any arguments *)

ApiIds == 0..1
ApiParents == 1..2
ApiSteps == 1..2

\* no writer is called once this many records have been written
MaxApiWrites == 3

\* another session than the process's own: a working directory with a space
OtherSession ==
  [sessionId |-> Dec(4), user |-> <<"ann">>, hostname |-> <<"srv">>,
   workingDir |-> <<"/", "my", " ", "dir">>, shell |-> "cmd.exe"]

\* the entries writeLog is called with: a registered command under its name
\* (run), and a one-off command under its own text (quick)
ApiEntries ==
  { [SingleEntry(<<"grep", " ", "EVENT-START">>, <<0>>, ProcessSession)
       EXCEPT !.commandName = <<"list">>],
    SingleEntry(<<"echo", " ", "(", "hi", ")">>, <<1>>, OtherSession) }

CanCall == pc = "api" /\ Len(issued) + Len(given) < MaxApiWrites

Wrote(w) ==
  /\ disk' = w.disk
  /\ UNCHANGED <<allocs, pc, eventId, exitStatus, laziVars, sbVars, tplVars, built>>

LoggerWriteLog(id, entry) ==
  /\ CanCall
  /\ LET w == writeLog(disk, [entry EXCEPT !.id = id])
     IN /\ Wrote(w)
        /\ issued' = IF id = 0 THEN Append(issued, w.drawn) ELSE issued
        /\ given' = IF id = 0 THEN given ELSE Append(given, id)

LoggerStartEventLog ==
  /\ CanCall
  /\ LET w == startEventLog(disk, "wf", "bash", 1, <<"ls">>)
     IN Wrote(w) /\ issued' = Append(issued, w.drawn) /\ given' = given

LoggerWriteStepLog(parentEventId, step) ==
  /\ CanCall
  /\ LET w == writeStepLog(disk, parentEventId, step, "node", <<"ls">>)
     IN Wrote(w) /\ issued' = Append(issued, w.drawn) /\ given' = given

LoggerEndEventLog(parentEventId) ==
  /\ CanCall
  /\ LET w == endEventLog(disk, parentEventId, "wf", 0, <<"out">>, <<>>)
     IN Wrote(w) /\ issued' = Append(issued, w.drawn) /\ given' = given

LoggerWriteBatchStart ==
  /\ CanCall
  /\ LET w == writeBatchStart(disk, 2, ProcessSession)
     IN Wrote(w) /\ issued' = Append(issued, w.drawn) /\ given' = given

LoggerWriteBatchStep(parentEventId, step) ==
  /\ CanCall
  /\ LET w == writeBatchStep(disk, parentEventId, step, "list", <<"list">>,
                             [exitCode |-> 0, success |-> TRUE, error |-> ""])
     IN Wrote(w) /\ issued' = Append(issued, w.drawn) /\ given' = given

LoggerWriteBatchEnd(parentEventId) ==
  /\ CanCall
  /\ LET w == writeBatchEnd(disk, parentEventId,
                            [totalCommands |-> 2, successful |-> 2, failed |-> 0])
     IN Wrote(w) /\ issued' = Append(issued, w.drawn) /\ given' = given

\* an append that is cut short: the text of the record reaches the file
\* without the separator that ends it
CutShort(w) == [w EXCEPT !.disk.logLines = SubSeq(@, 1, Len(@) - 1)]

LoggerWriteLogCutShort(entry) ==
  /\ CanCall
  /\ LET w == CutShort(writeLog(disk, entry))
     IN Wrote(w) /\ issued' = Append(issued, w.drawn) /\ given' = given

LoggerWriteStepLogCutShort(parentEventId, step) ==
  /\ CanCall
  /\ LET w == CutShort(writeStepLog(disk, parentEventId, step, "node", <<"ls">>))
     IN Wrote(w) /\ issued' = Append(issued, w.drawn) /\ given' = given

LoggerClearLogs ==
  /\ pc = "api"
  /\ disk' = clearLogs(disk)
  /\ UNCHANGED <<issued, given, allocs, pc, eventId, exitStatus, laziVars, sbVars, tplVars, built>>

\* the methods of the Logger that read the log file
Readers ==
  {"readLogs", "getLogCount", "searchBySession", "getEventLogs", "getAllEvents", "getLogById"}

\* whether the reader, called with the number n (a count, a session id or a
\* log id), finds something in the directory d
ReadFinds(d, reader, n) ==
  CASE reader = "readLogs" -> readLogs(d, n) # <<>>
    [] reader = "getLogCount" -> getLogCount(d) # 0
    [] reader = "searchBySession" -> searchBySession(d, Dec(n)) # <<>>
    [] reader = "getEventLogs" -> getEventLogs(d, n) # <<>>
    [] reader = "getAllEvents" -> getAllEvents(d) # <<>>
    [] OTHER -> getLogById(d, n) # NoLog

\* a call of a reader: it returns what it read and writes nothing
LoggerRead(reader, n) ==
  /\ pc = "api"
  /\ lookup' = Looked("Logger", reader, <<n>>, ~ReadFinds(disk, reader, n))
  /\ UNCHANGED <<logVars, pc, eventId, exitStatus, argv, commandBatches, i, successCount,
                 failureCount, running, outcomes, childCode, sbVars, tplVars, built>>

-----------------------------------------------------------------------------
(* Inputs *)

BoundedSeq(S, n) == UNION {[1..k -> S] : k \in 0..n}

Node(id, name, op, config) ==
  [id |-> id, name |-> name, script |-> TRUE, op |-> op, config |-> config]

Entry(key, value) == [key |-> key, value |-> value]

Edge(source, target) == [source |-> source, target |-> target]

\* an edge from the output handle sourceHandle of a branching node
BranchEdge(source, target, sourceHandle) ==
  [source |-> source, target |-> target, sourceHandle |-> sourceHandle]

\* the argument vectors lazi is started with
RawArgs ==
  { <<>>, <<"THEN">>, <<"list">>, <<"quick", "ls">>,
    <<"quick", "ls", "THEN", "list">>,
    <<"THEN", "list", "THEN", "THEN", "quick", "ls", "THEN", "list">> }

\* the words of an invocation: the separator, the word in lower case and
\* two commands
Tokens == {"THEN", "then", "quick", "list"}

\* an invocation has at most this many words
MaxArgs == 4

ArgVectors == BoundedSeq(Tokens, MaxArgs)

\* the workflows scriptbuilder run is started with
SavedWorkflows ==
  { [name |-> "one", scriptType |-> "",
     nodes |-> <<Node("n1", "Build", <<"lazi-", "build">>, <<>>)>>,
     edges |-> <<>>],
    [name |-> "two", scriptType |-> "bash",
     nodes |-> <<Node("n1", "Say", <<"custom-", "echo">>,
                      <<Entry("message", StrVal(<<"hi">>))>>),
                 Node("n2", "Fail", <<"custom-", "throw">>, <<>>)>>,
     edges |-> <<Edge("n2", "n1")>>] }

\* bounds of the workflows generateScript is given
MaxNodes == 3
MaxEdges == 3
MaxGenNodes == 2

NodeIds == <<"n1", "n2", "n3", "n4", "n5">>

BuildNodes(n) == [k \in 1..n |-> Node(NodeIds[k], "Build", <<"lazi-", "build">>, <<>>)]

\* the edges from one of the nodes n1..nN to another
EdgesAmong(n) ==
  {Edge(NodeIds[h[1]], NodeIds[h[2]]) : h \in {g \in (1..n) \X (1..n) : g[1] # g[2]}}

\* a workflow of the lazi command nodes n1..nN with the edges es
GraphWorkflow(n, es) ==
  [name |-> "graph", scriptType |-> "powershell", nodes |-> BuildNodes(n), edges |-> es]

\* workflows with an edge from a node to itself, and with edges that name
\* "ghost", an id that is no declared node
OddWorkflows ==
  { [name |-> "odd", scriptType |-> "powershell", nodes |-> BuildNodes(2), edges |-> es] :
    es \in { <<Edge("n1", "n1"), Edge("n2", "n1")>>,
             <<Edge("ghost", "n1"), Edge("n2", "n1")>>,
             <<Edge("n1", "ghost"), Edge("ghost", "n2")>>,
             <<Edge("n2", "ghost"), Edge("ghost", "n1")>> } }

\* what a node of a workflow can be: [script, op, config]
NodeKinds ==
  { [script |-> FALSE, op |-> <<"custom-", "echo">>, config |-> <<>>],
    [script |-> TRUE, op |-> <<"lazi-", "build">>,
     config |-> <<Entry("target", StrVal(<<"all">>)), Entry("mode", StrVal(<<>>))>>],
    [script |-> TRUE, op |-> <<"cmdregistry-log">>, config |-> <<Entry("logId", NumVal(5))>>],
    [script |-> TRUE, op |-> <<"cmdregistry-log">>, config |-> <<>>],
    [script |-> TRUE, op |-> <<"custom-", "echo">>,
     config |-> <<Entry("message", StrVal(<<"hi">>))>>],
    [script |-> TRUE, op |-> <<"custom-", "echo">>, config |-> <<>>],
    [script |-> TRUE, op |-> <<"custom-", "ok">>, config |-> <<>>],
    [script |-> TRUE, op |-> <<"custom-", "throw">>, config |-> <<>>],
    [script |-> TRUE, op |-> <<"custom-", "throw-lines">>, config |-> <<>>],
    [script |-> TRUE, op |-> <<"custom-", "throw-empty">>, config |-> <<>>],
    [script |-> TRUE, op |-> <<"custom-", "throw-string">>, config |-> <<>>],
    [script |-> TRUE, op |-> <<"custom-", "throw-null">>, config |-> <<>>],
    [script |-> TRUE, op |-> <<"custom-", "syntax">>, config |-> <<>>],
    [script |-> TRUE, op |-> <<"custom-", "value">>, config |-> <<>>],
    [script |-> TRUE, op |-> <<"custom-", "ps-only">>, config |-> <<>>],
    [script |-> TRUE, op |-> <<"custom-", "nope">>, config |-> <<>>],
    [script |-> TRUE, op |-> <<"hello">>, config |-> <<>>] }

\* workflows of any nodes, with no edge or with the edge n2 -> n1
GenWorkflows ==
  { [name |-> "gen", scriptType |-> t,
     nodes |-> [k \in 1..Len(ks) |->
                  [id |-> NodeIds[k], name |-> "Node", script |-> ks[k].script,
                   op |-> ks[k].op, config |-> ks[k].config]],
     edges |-> es] :
    t \in {"", "bash"}, ks \in BoundedSeq(NodeKinds, MaxGenNodes) \ {<<>>},
    es \in {<<>>, <<Edge("n2", "n1")>>} }

\* bound of the templates compileTemplate is given: the number of parts
MaxTplParts == 3

TplParts ==
  { <<"Write-Host ">>, Placeholder("message"), Placeholder("name"), <<"{">>, <<"}">>,
    <<"\n">>, <<" ">>, BranchPlaceholder("h") }

Templates == {Concat(ps) : ps \in BoundedSeq(TplParts, MaxTplParts)}

TplConfigs ==
  { <<>>,
    <<Entry("message", StrVal(<<"hi">>))>>,
    <<Entry("message", NullVal)>>,
    <<Entry("message", NumVal(42))>>,
    <<Entry("name", StrVal(<<"hi">>))>>,
    <<Entry("message", StrVal(Placeholder("name"))), Entry("name", StrVal(<<"hi">>))>>,
    <<Entry("message", StrVal(<<"hi">>)), Entry("name", StrVal(<<"you">>))>> }

TplBranches == { <<>>, <<Entry("h", <<"a", "\n", "b">>)>> }

-----------------------------------------------------------------------------
(* Specifications *)

StartIn(at, dir) ==
  /\ storageDir = dir
  /\ disk = EmptyDisk
  /\ issued = <<>>
  /\ given = <<>>
  /\ allocs = [p \in Procs |-> NoCalls]
  /\ pc = at
  /\ eventId = 0
  /\ exitStatus = 0
  /\ argv = <<>>
  /\ lookup = NoLookup
  /\ commandBatches = <<>>
  /\ i = 0
  /\ successCount = 0
  /\ failureCount = 0
  /\ running = {}
  /\ outcomes = <<>>
  /\ childCode = <<>>
  /\ sbScriptType = "powershell"
  /\ sbScript = NoScript
  /\ rendered = <<>>
  /\ built = NoBuild

\* with no ~/.lazi-config.json the storage directory is the default one;
\* no workflow has been saved
Start(at) == StartIn(at, DEFAULT_STORAGE_DIR) /\ workflowFile = NoWorkflow

\* the lazi and scriptbuilder processes on one storage directory, one at a
\* time, from an empty directory
Init ==
  /\ Start("idle")
  /\ sbWorkflow = NoWorkflow
  /\ tplTemplate = <<>> /\ tplConfig = <<>> /\ tplBranches = <<>>

Next ==
  \/ Len(issued) < MaxId /\ \E rawArgs \in RawArgs : LaziCommand(rawArgs)
  \/ Len(issued) < MaxId /\ \E rawArgs \in RawArgs : LaziNothing(rawArgs)
  \/ Len(issued) < MaxId /\ \E rawArgs \in RawArgs : BatchStart(rawArgs)
  \/ \E exitCode \in CloseCodes : CommandClose(exitCode)
  \/ CommandError
  \/ BatchSpawn
  \/ BatchSpawnThrows
  \/ \E exitCode \in CloseCodes : ChildCommandClose(exitCode)
  \/ \E exitCode \in CloseCodes : BatchChildClose(exitCode)
  \/ BatchChildError
  \/ BatchEnd
  \/ Len(issued) < MaxId /\ \E wf \in SavedWorkflows, log \in BOOLEAN : SbRun(wf, log)
  \/ \E exitCode \in CloseCodes : SbRunClose(exitCode)
  \/ SbRunError

Spec == Init /\ [][Next]_vars

\* batch invocations alone
NextBatch ==
  \/ Len(issued) < MaxId /\ \E rawArgs \in RawArgs : BatchStart(rawArgs)
  \/ BatchSpawn
  \/ BatchSpawnThrows
  \/ \E exitCode \in CloseCodes : ChildCommandClose(exitCode)
  \/ \E exitCode \in CloseCodes : BatchChildClose(exitCode)
  \/ BatchChildError
  \/ BatchEnd

\* the child of every turn comes to its 'close' or its 'error' event
ChildEnds == (\E exitCode \in CloseCodes : BatchChildClose(exitCode)) \/ BatchChildError

\* batch invocations whose loop takes its turns (the await of a turn is the
\* only place where the async function waits), whose children all end, and
\* whose writeBatchEnd and process.exit follow the loop
SpecBatchFair ==
  /\ Init
  /\ [][NextBatch]_vars
  /\ WF_vars(BatchSpawn \/ BatchSpawnThrows)
  /\ WF_vars(ChildEnds)
  /\ WF_vars(BatchEnd)

\* the same processes over a longer time, each run ending well or being
\* left open: the log comes to hold many events and single records
NextFamily ==
  \/ Len(issued) < MaxFamilyId /\ LaziCommand(<<"quick", "ls">>)
  \/ CommandClose(<<0>>)
  \/ Len(issued) < MaxFamilyId /\ BatchStart(<<"list", "THEN", "list">>)
  \/ BatchSpawn
  \/ BatchChildClose(<<0>>)
  \/ BatchEnd
  \/ Len(issued) < MaxFamilyId
     /\ \E wf \in {w \in SavedWorkflows : w.name = "one"} : SbRun(wf, TRUE)
  \/ SbRunClose(<<0>>)
  \/ SbRunError

SpecFamily == Init /\ [][NextFamily]_vars

\* the start of a lazi process on any words: the split and the choice of the mode
NextSplit ==
  \/ \E rawArgs \in ArgVectors : LaziCommand(rawArgs)
  \/ \E rawArgs \in ArgVectors : LaziNothing(rawArgs)
  \/ Len(issued) < MaxId /\ \E rawArgs \in ArgVectors : BatchStart(rawArgs)

SpecSplit == Init /\ [][NextSplit]_vars

\* SpecLookup: no process that writes to the log starts once this many ids
\* have been issued
MaxLookupId == 3

\* the ids the commands are asked for: those of the records, 0 and one that
\* no record has
TargetIds == 0..(MaxLookupId + 1)

\* the values of --from-steps: one id or two
StepIdLists == {<<a>> : a \in TargetIds} \cup {<<a, b>> : a, b \in TargetIds}

\* workflow names with no file in the workflows directory
MissingWorkflows == {"none"}

\* the node ids asked of node show: one of a custom node, one of none
AskedNodes == {<<"custom-", "echo">>, <<"custom-", "none">>}

\* the commands that look a target up, on a store that quick and
\* scriptbuilder run have written
NextLookup ==
  \/ Len(issued) < MaxLookupId /\ LaziCommand(<<"quick", "ls">>)
  \/ CommandClose(<<0>>)
  \/ Len(issued) < MaxLookupId
     /\ \E wf \in {w \in SavedWorkflows : w.name = "one"} : SbRun(wf, TRUE)
  \/ SbRunClose(<<0>>)
  \/ Len(issued) < MaxLookupId /\ \E logId \in TargetIds : LaziRerun(logId)
  \/ \E exitCode \in CloseCodes : RerunClose(exitCode)
  \/ RerunError
  \/ \E logId \in TargetIds, taken \in BOOLEAN : LaziPromote(logId, taken)
  \/ \E id \in TargetIds : LaziEvent(id)
  \/ \E id \in TargetIds : LaziStep(id)
  \/ \E stepIds \in StepIdLists : LaziBuild(stepIds)
  \/ \E command \in {"show", "generate", "run"}, name \in MissingWorkflows :
       SbLoadWorkflowMissing(command, name)
  \/ \E wf \in SavedWorkflows : SbShow(wf)
  \/ \E id \in AskedNodes : SbNodeShow(id)

SpecLookup == Init /\ [][NextLookup]_vars

\* SpecAppendFails: no process starts once this many ids have been drawn
MaxFaultId == 3

\* quick and a batch while the log file is, at times, refused by fs
NextAppendFails ==
  \/ FsLogFails
  \/ FsLogRecovers
  \/ Len(issued) < MaxFaultId /\ LaziCommand(<<"quick", "ls">>)
  \/ \E exitCode \in CloseCodes : CommandClose(exitCode)
  \/ Len(issued) < MaxFaultId /\ BatchStart(<<"quick", "ls", "THEN", "list">>)
  \/ BatchSpawn
  \/ \E exitCode \in CloseCodes : ChildCommandClose(exitCode)
  \/ \E exitCode \in CloseCodes : BatchChildClose(exitCode)
  \/ BatchEnd

SpecAppendFails == Init /\ [][NextAppendFails]_vars

\* a program calling the writers of a Logger directly
InitLogger ==
  /\ Start("api")
  /\ sbWorkflow = NoWorkflow
  /\ tplTemplate = <<>> /\ tplConfig = <<>> /\ tplBranches = <<>>

NextLogger ==
  \/ \E id \in ApiIds, entry \in ApiEntries : LoggerWriteLog(id, entry)
  \/ LoggerStartEventLog
  \/ \E p \in ApiParents, n \in ApiSteps : LoggerWriteStepLog(p, n)
  \/ \E p \in ApiParents : LoggerEndEventLog(p)
  \/ LoggerWriteBatchStart
  \/ \E p \in ApiParents : LoggerWriteBatchStep(p, 1)
  \/ \E p \in ApiParents : LoggerWriteBatchEnd(p)

SpecLogger == InitLogger /\ [][NextLogger]_vars

\* a program calling writers, each of which draws an id, while the counter
\* file is, at times, refused by fs and the clock moves on
NextCounterFails ==
  \/ FsCounterFails
  \/ FsCounterRecovers
  \/ ClockTick
  \/ LoggerStartEventLog
  \/ \E p \in ApiParents, n \in ApiSteps : LoggerWriteStepLog(p, n)

SpecCounterFails == InitLogger /\ [][NextCounterFails]_vars

-----------------------------------------------------------------------------
(* scriptbuilder: the commands that write and load the workflow file *)

\* a scriptbuilder process that keeps the workflow file begins
SbStartsOn ==
  /\ CanStart
  /\ FreshLazi
  /\ argv' = <<>>
  /\ commandBatches' = <<>>
  /\ eventId' = 0
  /\ sbScriptType' = "powershell"
  /\ sbScript' = NoScript

\* scriptbuilder create <name> [-t type]
SbCreate(name, type) ==
  /\ SbStartsOn
  /\ sbWorkflow' = NoWorkflow
  /\ lookup' = Looked("scriptbuilder", "create", <<name>>, workflowFile.name = name)
  /\ IF workflowFile.name = name
     THEN Ends(1) /\ UNCHANGED workflowFile
     ELSE /\ workflowFile' = [name |-> name, scriptType |-> type, nodes |-> <<>>, edges |-> <<>>]
          /\ Ends(0)
  /\ UNCHANGED <<logVars, storageDir, tplVars, built>>

\* options.name || `Log-${options.log}`
LogNames == <<"Log-1", "Log-2", "Log-3", "Log-4", "Log-5", "Log-6">>

\* scriptbuilder add-node <workflow> --log <logId>: the node gets the id
\* `node-${Date.now()}`, here the next of NodeIds, and an edge from the node
\* that was last
SbAddNode(workflowName, log) ==
  /\ SbStartsOn
  /\ lookup' = Looked("scriptbuilder", "add-node", <<workflowName>>,
                      workflowFile.name # workflowName)
  /\ IF workflowFile.name # workflowName
     THEN /\ sbWorkflow' = NoWorkflow
          /\ Ends(1)
          /\ UNCHANGED workflowFile
     ELSE LET nodeType == <<"lazi-", "log">>
              nodeName == LogNames[log]
              nodeConfig == <<Entry("logId", NumVal(log))>>
              nodeId == NodeIds[Len(workflowFile.nodes) + 1]
              newNode == Node(nodeId, nodeName, nodeType, nodeConfig)
              nodes == Append(workflowFile.nodes, newNode)
              edges == IF Len(nodes) > 1
                       THEN Append(workflowFile.edges, Edge(nodes[Len(nodes) - 1].id, nodeId))
                       ELSE workflowFile.edges
              workflow == [workflowFile EXCEPT !.nodes = nodes, !.edges = edges]
          IN /\ sbWorkflow' = workflow
             /\ workflowFile' = workflow
             /\ Ends(0)
  /\ UNCHANGED <<logVars, storageDir, tplVars, built>>

\* scriptbuilder generate <name>, up to the return of loadWorkflow, when the
\* file is there
SbLoadWorkflow(name) ==
  /\ SbStartsOn
  /\ workflowFile.name = name
  /\ sbWorkflow' = workflowFile
  /\ lookup' = Looked("scriptbuilder", "generate", <<name>>, FALSE)
  /\ pc' = "loaded"
  /\ UNCHANGED <<logVars, exitStatus, storageDir, workflowFile, tplVars, built>>

-----------------------------------------------------------------------------
(* Replaying logged commands in a workflow *)

\* the writers, the readers and clearLogs of the Logger called in any order
NextStore ==
  \/ \E entry \in ApiEntries : LoggerWriteLog(0, entry)
  \/ LoggerStartEventLog
  \/ LoggerWriteStepLog(1, 1)
  \/ LoggerWriteBatchEnd(1)
  \/ LoggerClearLogs
  \/ \E reader \in Readers, n \in {1, 4} : LoggerRead(reader, n)

SpecStore == InitLogger /\ [][NextStore]_vars

\* what a command prints: a word, two lines, and lines that end in three
\* dashes after other text
PayloadTexts ==
  {<<"out">>, <<"a", "\n", "b">>, <<"total", "---">>, <<"a", "\n", "== ", "---", "\n", "b">>}

PayloadEntries ==
  {[SingleEntry(<<"ls">>, <<0>>, ProcessSession) EXCEPT !.stdout = t] : t \in PayloadTexts}

LoggerWriteStepCode(parentEventId, stepCode) ==
  /\ pc = "api"
  /\ LET w == writeStepLog(disk, parentEventId, 1, "node", stepCode)
     IN Wrote(w) /\ issued' = Append(issued, w.drawn) /\ given' = given

\* records whose payload holds any of the texts are written, counted and cleared
NextPayload ==
  \/ \E entry \in PayloadEntries : LoggerWriteLog(0, entry)
  \/ Len(issued) < MaxApiWrites /\ \E t \in PayloadTexts : LoggerWriteStepCode(1, t)
  \/ LoggerClearLogs

SpecPayload == InitLogger /\ [][NextPayload]_vars

\* the scripts a workflow run stores: one line; two lines between empty
\* lines; a line that ends in three dashes; a line that begins with them
EventScripts ==
  {<<"ls">>, <<"\n", "ls", "\n", "pwd", "\n">>, <<"echo ", "---", "\n", "ls">>,
   <<"ls", "\n", "---", " x">>}

EventScriptTypes == {"bash", "powershell"}

LoggerStartEvent(scriptType, scriptContent) ==
  /\ pc = "api"
  /\ LET w == startEventLog(disk, "wf", scriptType, 1, scriptContent)
     IN Wrote(w) /\ issued' = Append(issued, w.drawn) /\ given' = given

\* events with scripts of several kinds are logged among step records and
\* looked up by id
NextEvent ==
  \/ Len(issued) < MaxApiWrites
     /\ \E t \in EventScriptTypes, script \in EventScripts : LoggerStartEvent(t, script)
  \/ LoggerWriteStepLog(1, 1)
  \/ \E n \in 1..MaxApiWrites : LoggerRead("getLogById", n)

SpecEvent == InitLogger /\ [][NextEvent]_vars

\* SpecBuild: the records in the store
MaxBuildWrites == 4

\* the step codes of SpecBuild: none, and one of two lines
BuildCodes == {<<>>, <<"cd /", "\n", "ls">>}

\* the values of --from-steps of SpecBuild: one id or two, of events, of
\* steps and of no record
BuildIdLists == {<<a>> : a \in 2..5} \cup {<<a, b>> : a, b \in 2..5}

\* the values of --type, "" when the option is not given
TypeOptions == {"", "bash"}

\* the ids of the events started so far
StartedEvents == {id \in 1..Len(issued) : getLogById(disk, id) # NoLog}

\* the program that called the Logger ends
ApiEnds ==
  /\ pc = "api"
  /\ pc' = "idle"
  /\ UNCHANGED <<logVars, eventId, exitStatus, laziVars, sbVars, tplVars, built>>

\* a program logs events and steps of them, as a workflow run does, and
\* ends; then a script is built from steps
NextBuild ==
  \/ Len(issued) < MaxBuildWrites /\ \E t \in EventScriptTypes : LoggerStartEvent(t, <<"ls">>)
  \/ Len(issued) < MaxBuildWrites
     /\ \E p \in StartedEvents, code \in BuildCodes : LoggerWriteStepCode(p, code)
  \/ ApiEnds
  \/ pc = "idle" /\ \E stepIds \in BuildIdLists, t \in TypeOptions : LaziBuildTo(stepIds, t)

SpecBuild == InitLogger /\ [][NextBuild]_vars

\* the storage directories of the model
StorageDirs == {DEFAULT_STORAGE_DIR, RepoStorageDir}

\* no command that writes records starts once this many ids are given out
MaxReplayId == 2

\* a workflow file holds at most this many nodes
MaxReplayNodes == 2

\* what lazi quick is asked to run
QuickCommands == {<<"quick", "npm install">>, <<"quick", "echo", "(", "hi", ")">>}

\* workflow files written by hand with one node that replays a log
ReplayWorkflows ==
  { [name |-> "my-flow", scriptType |-> "bash",
     nodes |-> <<Node("n1", "Replay", <<"cmdregistry-log">>, <<Entry("logId", NumVal(n))>>)>>,
     edges |-> <<>>] : n \in 1..(MaxReplayId + 1) }

InitReplay ==
  /\ \E dir \in StorageDirs : StartIn("idle", dir)
  /\ workflowFile \in {NoWorkflow} \cup ReplayWorkflows
  /\ sbWorkflow = NoWorkflow
  /\ tplTemplate = <<>> /\ tplConfig = <<>> /\ tplBranches = <<>>

\* commands are logged, nodes that replay them are added to a workflow, the
\* workflow is generated and run
NextReplay ==
  \/ Len(issued) < MaxReplayId /\ \E rawArgs \in QuickCommands : LaziCommand(rawArgs)
  \/ CommandClose(<<0>>)
  \/ SbCreate("my-flow", "powershell")
  \/ /\ Len(workflowFile.nodes) < MaxReplayNodes
     /\ \E log \in 1..(MaxReplayId + 1) : SbAddNode("my-flow", log)
  \/ SbLoadWorkflow("my-flow")
  \/ SbGenerate("")
  \/ Len(issued) < MaxReplayId /\ workflowFile # NoWorkflow /\ SbRun(workflowFile, TRUE)
  \/ SbRunClose(<<0>>)

SpecReplay == InitReplay /\ [][NextReplay]_vars

\* processes that draw ids from one counter file at the same time
NextConcurrent ==
  \/ \E p \in Procs : AllocRead(p)
  \/ \E p \in Procs : AllocWrite(p)

SpecConcurrent == InitLogger /\ [][NextConcurrent]_vars

\* two batch invocations that write their records at the same time
NextTwoBatches ==
  \/ \E p \in Procs : AllocRead(p)
  \/ \E p \in Procs : BatchWrite(p)

SpecTwoBatches == InitLogger /\ [][NextTwoBatches]_vars

\* the same program, some of whose appends are cut short
NextPartial ==
  \/ NextLogger
  \/ \E entry \in ApiEntries : LoggerWriteLogCutShort(entry)
  \/ \E p \in ApiParents, n \in ApiSteps : LoggerWriteStepLogCutShort(p, n)

SpecPartial == InitLogger /\ [][NextPartial]_vars

\* the same program, which clears the log as well
NextClear ==
  \/ NextLogger
  \/ LoggerClearLogs

SpecClear == InitLogger /\ [][NextClear]_vars

\* scriptbuilder generate on a loaded workflow: lazi command nodes with any
\* edges from one node to another, in any order (cycles among them), the
\* odd workflows, and the workflows of any nodes
InitScript ==
  /\ Start("loaded")
  /\ \/ \E n \in 1..MaxNodes, k \in 0..MaxEdges :
          \E es \in [1..k -> EdgesAmong(n)] : sbWorkflow = GraphWorkflow(n, es)
     \/ sbWorkflow \in OddWorkflows
     \/ sbWorkflow \in GenWorkflows
  /\ tplTemplate = <<>> /\ tplConfig = <<>> /\ tplBranches = <<>>

NextScript == \E typeOption \in {"", "powershell", "bash"} : SbGenerate(typeOption)

SpecScript == InitScript /\ [][NextScript]_vars

\* what the nodes on the branches of an if node are
BranchTargets ==
  { [script |-> TRUE, op |-> <<"custom-", "ok">>, config |-> <<>>],
    [script |-> TRUE, op |-> <<"lazi-", "build">>, config |-> <<>>],
    [script |-> TRUE, op |-> <<"custom-", "echo">>,
     config |-> <<Entry("message", StrVal(<<"hi">>))>>] }

\* workflows of the if node n1 and the nodes n2 and n3, with edges from the
\* output handles of n1 to them
BranchWorkflows ==
  { [name |-> "branch", scriptType |-> t,
     nodes |-> <<Node("n1", "If", <<"custom-", "if">>, <<>>),
                 [id |-> "n2", name |-> "Then", script |-> k2.script, op |-> k2.op,
                  config |-> k2.config],
                 [id |-> "n3", name |-> "Else", script |-> k3.script, op |-> k3.op,
                  config |-> k3.config]>>,
     edges |-> es] :
    t \in {"", "bash"}, k2 \in BranchTargets, k3 \in BranchTargets,
    es \in { <<>>,
             <<BranchEdge("n1", "n2", "true-path")>>,
             <<BranchEdge("n1", "n3", "false-path")>>,
             <<BranchEdge("n1", "n2", "true-path"), BranchEdge("n1", "n3", "false-path")>>,
             <<BranchEdge("n1", "n3", "false-path"), BranchEdge("n1", "n2", "true-path")>> } }

\* generate on a workflow with a branching node
InitBranch ==
  /\ Start("loaded")
  /\ sbWorkflow \in BranchWorkflows
  /\ tplTemplate = <<>> /\ tplConfig = <<>> /\ tplBranches = <<>>

SpecBranch == InitBranch /\ [][NextScript]_vars

\* the workflows of SpecRun: two or three nodes, each a lazi command node or
\* a node with no script data, with no edge or with edges against the order
\* in which the nodes are declared
RunNodeKinds ==
  { [script |-> TRUE, op |-> <<"lazi-", "build">>, config |-> <<>>],
    [script |-> FALSE, op |-> <<"custom-", "echo">>, config |-> <<>>] }

RunWorkflows ==
  { [name |-> "run", scriptType |-> t,
     nodes |-> [k \in 1..Len(ks) |->
                  [id |-> NodeIds[k], name |-> "Node", script |-> ks[k].script,
                   op |-> ks[k].op, config |-> ks[k].config]],
     edges |-> es] :
    t \in {"", "bash"}, ks \in [1..2 -> RunNodeKinds] \cup [1..3 -> RunNodeKinds],
    es \in {<<>>, <<Edge("n1", "n2")>>, <<Edge("n2", "n1")>>} }

\* logged runs of workflows, from an empty store
NextRun ==
  \/ Len(issued) < MaxId /\ \E wf \in RunWorkflows : SbRun(wf, TRUE)
  \/ \E exitCode \in CloseCodes : SbRunClose(exitCode)
  \/ SbRunError

SpecRun == Init /\ [][NextRun]_vars

\* one call of compileTemplate
InitTemplate ==
  /\ Start("template")
  /\ sbWorkflow = NoWorkflow
  /\ tplTemplate \in Templates
  /\ tplConfig \in TplConfigs
  /\ tplBranches \in TplBranches

NextTemplate == Render

SpecTemplate == InitTemplate /\ [][NextTemplate]_vars

-----------------------------------------------------------------------------
(* Reading the records of the log *)

IdOf(entry) == entry[1].num

StepOf(entry) == entry[1].arg

\* the Event-Type of a record; a record of writeLog has none
KindOf(entry) ==
  IF \E k \in 1..Len(entry) : entry[k].tag = "Event-Type"
  THEN entry[CHOOSE k \in 1..Len(entry) : entry[k].tag = "Event-Type"].txt
  ELSE "single"

\* the number a line of the record gives, 0 when the record has no such line
Field(entry, tag) ==
  IF \E k \in 1..Len(entry) : entry[k].tag = tag
  THEN entry[CHOOSE k \in 1..Len(entry) : entry[k].tag = tag].num
  ELSE 0

ParentOf(entry) == Field(entry, "Parent-Event")

IsStart(entry) == KindOf(entry) \in {"event-start", "batch-start"}
IsStep(entry) == KindOf(entry) \in {"event-step", "batch-step"}
IsEnd(entry) == KindOf(entry) \in {"event-end", "batch-end"}

\* the step and end records of the event s, in the order of the log
FamilyOf(d, s) ==
  LET entries == Entries(d)
  IN Filter(entries, {e \in Range(entries) : (IsStep(e) \/ IsEnd(e)) /\ ParentOf(e) = s})

\* the records of one kind of the event s, in the order of the log
KindRecords(d, s, kind) ==
  LET family == FamilyOf(d, s)
  IN Filter(family, {e \in Range(family) : KindOf(e) = kind})

\* a batch invocation has come to its end
BatchDone == pc = "exited" /\ Len(commandBatches) > 1

\* the sub-commands of the batch that exited with code 0
ExitedZero == {k \in 1..Len(outcomes) : outcomes[k].how = "close" /\ outcomes[k].code = <<0>>}

-----------------------------------------------------------------------------
(* C1 *)

\* C1: for every event in the log, with start id s, getEventLogs(s) is the
\* start record followed by exactly the records whose Parent-Event is s (its
\* k steps and, once the event is closed, its end record: 1 + k + 1 records),
\* whatever other events and single records the log holds.
C1_FamilyCompleteness ==
  \A k \in 1..Len(Entries(disk)) :
    LET e == Entries(disk)[k]
        family == FamilyOf(disk, IdOf(e))
    IN IsStart(e) =>
         /\ getEventLogs(disk, IdOf(e)) = <<e>> \o family
         /\ Len(getEventLogs(disk, IdOf(e)))
              = 1 + Cardinality({j \in 1..Len(family) : IsStep(family[j])})
                  + Cardinality({j \in 1..Len(family) : IsEnd(family[j])})

\* the log holds the events 1 and 10, and getEventLogs(1) returns a record of
\* the event 10
C1_ForeignRecordReturned ==
  \E k \in 1..Len(getEventLogs(disk, 1)) : ParentOf(getEventLogs(disk, 1)[k]) = 10

-----------------------------------------------------------------------------
(* C2 *)

\* C2: the ids getNextLogId returns to the calls of one process after another
\* on one storage directory are 1, 2, 3, ...: the first id, from an absent
\* counter file, is 1, each later id is the one before plus 1 (so strictly
\* greater), and the counter file holds the last id in decimal.
C2_IdMonotonicity ==
  /\ \A k \in 1..Len(issued) : issued[k] = k
  /\ disk.counterExists <=> issued # <<>>
  /\ issued # <<>> => disk.counterText = Dec(issued[Len(issued)])

\* twelve ids were issued, the last three of two digits
C2_TwelveIssued == Len(issued) = 12 /\ issued[12] = 12 /\ disk.counterText = <<"1", "2">>

-----------------------------------------------------------------------------
(* C3 *)

\* C3: after any sequence of writer calls (writeLog with any LogEntry,
\* startEventLog, writeStepLog, endEventLog, writeBatchStart, writeBatchStep,
\* writeBatchEnd), every record of the log has an id greater than the id of
\* every record appended before it (so no two records share an id).
C3_IdsUniqueIncreasing ==
  \A a, b \in 1..Len(Entries(disk)) :
    a < b => IdOf(Entries(disk)[a]) < IdOf(Entries(disk)[b])

\* writeLog was given an entry with an id, and two records of the log share it
C3_SharedId ==
  /\ given # <<>>
  /\ \E a, b \in 1..Len(Entries(disk)) :
       a < b /\ IdOf(Entries(disk)[a]) = IdOf(Entries(disk)[b])

-----------------------------------------------------------------------------
(* C4 *)

\* C4: when a batch of n sub-commands has ended, whatever each did (exited 0,
\* exited non-zero, or failed to spawn), all n were run, the log holds
\* exactly n batch-step records of the batch, with the step numbers 1..n, and
\* its batch-end record gives Total-Commands = n, Successful = the number of
\* sub-commands that exited 0, and Failed = n - Successful.
C4_ContinueOnError ==
  BatchDone =>
    LET n == Len(commandBatches)
        steps == KindRecords(disk, eventId, "batch-step")
        ends == KindRecords(disk, eventId, "batch-end")
    IN /\ Len(outcomes) = n
       /\ \A k \in 1..n : outcomes[k].step = k
       /\ Len(steps) = n
       /\ \A k \in 1..Len(steps) : StepOf(steps[k]) = k
       /\ Len(ends) = 1
       /\ \A k \in 1..Len(ends) :
            /\ Field(ends[k], "Total-Commands") = n
            /\ Field(ends[k], "Successful") = Cardinality(ExitedZero)
            /\ Field(ends[k], "Failed") = n - Cardinality(ExitedZero)

\* a batch of 3 has ended whose 2nd sub-command failed to spawn: the log
\* holds 4 batch-step records of it and its batch-end record counts 2 failures
C4_SpawnFailureCountedTwice ==
  /\ BatchDone
  /\ Len(commandBatches) = 3
  /\ \A k \in 1..Len(outcomes) : outcomes[k].how = (IF k = 2 THEN "error" ELSE "close")
  /\ Cardinality(ExitedZero) = 2
  /\ Len(KindRecords(disk, eventId, "batch-step")) = 4
  /\ \E k \in 1..Len(Entries(disk)) :
       /\ KindOf(Entries(disk)[k]) = "batch-end"
       /\ Field(Entries(disk)[k], "Successful") = 2
       /\ Field(Entries(disk)[k], "Failed") = 2

-----------------------------------------------------------------------------
(* C5 *)

-----------------------------------------------------------------------------
(* C6 *)

\* C6: the records of an event (a batch, or a logged workflow run) lie in the
\* log in logical order: every step or end record comes after the start
\* record of its event and has a greater id, and an end record comes after
\* every step record of its event and has a greater id than each.
C6_LogicalOrder ==
  LET entries == Entries(disk)
  IN \A q \in 1..Len(entries) :
       /\ (IsStep(entries[q]) \/ IsEnd(entries[q])) =>
            \E p \in 1..(q - 1) :
              /\ IsStart(entries[p])
              /\ IdOf(entries[p]) = ParentOf(entries[q])
              /\ IdOf(entries[p]) < IdOf(entries[q])
       /\ IsEnd(entries[q]) =>
            \A r \in 1..Len(entries) :
              IsStep(entries[r]) /\ ParentOf(entries[r]) = ParentOf(entries[q]) =>
                r < q /\ IdOf(entries[r]) < IdOf(entries[q])

\* a batch of 3 has ended after a single record was logged: the log holds
\* its start record, its step records and its end record
C6_BatchLogged ==
  /\ BatchDone
  /\ Len(commandBatches) = 3
  /\ eventId = 2
  /\ Len(KindRecords(disk, eventId, "batch-step")) >= 3
  /\ Len(KindRecords(disk, eventId, "batch-end")) = 1

-----------------------------------------------------------------------------
(* C7 *)

\* C7: a batch invocation ends with exit code 0 if every sub-command exited
\* with code 0, and with exit code 1 otherwise.
C7_BatchExitCode ==
  BatchDone =>
    /\ Len(outcomes) = Len(commandBatches)
    /\ exitStatus = IF Cardinality(ExitedZero) = Len(commandBatches) THEN 0 ELSE 1

\* a batch has ended with exit code 1: one sub-command exited 1, one exited 0
C7_OneFailed ==
  /\ BatchDone
  /\ exitStatus = 1
  /\ \E k \in 1..Len(outcomes) : outcomes[k].how = "close" /\ outcomes[k].code = <<1>>
  /\ ExitedZero # {}

-----------------------------------------------------------------------------
(* C8 *)

\* the edges of a workflow as pairs
EdgePairs(workflow) == {<<e.source, e.target>> : e \in Range(workflow.edges)}

RECURSIVE ReachFrom(_, _, _)
\* the ids reached from the ids of frontier by one edge of R or more
ReachFrom(R, frontier, seen) ==
  LET next == {p[2] : p \in {q \in R : q[1] \in frontier}} \ seen
  IN IF next = {} THEN seen ELSE ReachFrom(R, next, seen \cup next)

\* the edges form a directed acyclic graph: no id reaches itself
IsDAG(workflow) ==
  \A p \in EdgePairs(workflow) : p[1] \notin ReachFrom(EdgePairs(workflow), {p[1]}, {})

DeclaredIds(workflow) == {workflow.nodes[k].id : k \in 1..Len(workflow.nodes)}

\* the places of an id in the order generateScript computed
PlacesOf(id) == {k \in 1..Len(sbScript.sorted) : sbScript.sorted[k] = id}

\* C8: when generateScript has run on a workflow whose edges form a DAG, the
\* order it computed holds every node once, and every node comes after all
\* of its transitive dependencies: for nodes a and b with a path of edges
\* from a to b (an edge a -> b in particular), a is placed before b.
C8_TopologicalValidity ==
  pc = "exited" /\ IsDAG(sbWorkflow) =>
    /\ \A id \in DeclaredIds(sbWorkflow) : Cardinality(PlacesOf(id)) = 1
    /\ \A a, b \in DeclaredIds(sbWorkflow) :
         b \in ReachFrom({p \in EdgePairs(sbWorkflow) : p[2] \in DeclaredIds(sbWorkflow)},
                         {a}, {}) =>
           \A ka \in PlacesOf(a), kb \in PlacesOf(b) : ka < kb

\* a script was generated for the chain n3 -> n2 -> n1 with the edge
\* n3 -> n1 besides: the nodes are emitted against their declaration order
C8_ChainReordered ==
  /\ pc = "exited"
  /\ IsDAG(sbWorkflow)
  /\ EdgePairs(sbWorkflow) = {<<"n3", "n2">>, <<"n2", "n1">>, <<"n3", "n1">>}
  /\ sbScript.sorted = <<"n3", "n2", "n1">>
  /\ Len(sbScript.sections) = 3

-----------------------------------------------------------------------------
(* C9 *)

\* the keys the templates name
TplKeys == {"message", "name"}

RECURSIVE Substituted(_, _)
\* the template with every {{key}} replaced by the stringified config value
\* of key, and by the empty string when config has no such key
Substituted(t, config) ==
  IF t = <<>> THEN <<>>
  ELSE IF \E key \in TplKeys : MatchesAt(t, 1, Placeholder(key))
       THEN Stringify(ConfigValue(config, t[3])) \o Substituted(SubSeq(t, 6, Len(t)), config)
       ELSE <<t[1]>> \o Substituted(Tail(t), config)

\* C9: what compileTemplate renders (no branches given) is the template with
\* every occurrence of {{key}} replaced by the stringified config value of
\* key, and by the empty string where config has no such key.
C9_TemplateSubstitution ==
  pc = "exited" /\ tplBranches = <<>> => rendered = <<Substituted(tplTemplate, tplConfig)>>

\* Write-Host {{message}} was rendered with the config {}: the placeholder
\* is still there
C9_PlaceholderKept ==
  /\ pc = "exited"
  /\ tplConfig = <<>>
  /\ tplBranches = <<>>
  /\ tplTemplate = <<"Write-Host ">> \o Placeholder("message")
  /\ rendered = <<tplTemplate>>

-----------------------------------------------------------------------------
(* C10 *)

\* the generator source the node's operation has for the script type
GeneratorSource(node, scriptType) ==
  IF node.op \in DOMAIN customNodes THEN customNodes[node.op][scriptType] ELSE <<>>

\* the node has a function-form generator that does not compile or throws
FailingGenerator(node, scriptType) ==
  LET source == GeneratorSource(node, scriptType)
  IN /\ node.script
     /\ IsFunctionString(Trim(source))
     /\ JsEval(source[2]).kind # "function" \/ ~JsCall(source[2]).ok

\* the message of the error the failing generator of the node ends with
ErrorMessage(node, scriptType) ==
  LET body == GeneratorSource(node, scriptType)[2]
  IN CASE JsEval(body).kind = "throws" -> JsEval(body).thrown.message
       [] JsEval(body).kind = "value" -> <<"Generator must be a function">>
       [] OTHER -> JsCall(body).thrown.message

\* one line of text, and a comment
IsCommentLine(t) ==
  /\ t # <<>>
  /\ t[1] \in {"# Error: ", "# Error compiling generator: ", "# Error generating code for "}
  /\ \A k \in 1..Len(t) : t[k] # "\n"

\* the code of a section: what lies between its two header lines and its end
CodeIn(section) == SubSeq(section, 7, Len(section) - 2)

\* the workflow with every node of a failing generator given a sound one
Repaired(workflow, scriptType) ==
  [workflow EXCEPT !.nodes =
     [k \in 1..Len(workflow.nodes) |->
        IF FailingGenerator(workflow.nodes[k], scriptType)
        THEN [workflow.nodes[k] EXCEPT !.op = <<"custom-", "ok">>]
        ELSE workflow.nodes[k]]]

\* C10: generateScript ends with a script whatever the generators do; the
\* code of a node whose function-form generator throws or does not compile
\* is one comment line that holds the error message; and the section of every
\* other node is what it is when no generator fails.
C10_FailureIsolation ==
  pc = "exited" =>
    /\ sbScript.ok
    /\ Len(sbScript.sections) = Len(Emitted(sbWorkflow))
    /\ \A k \in 1..Len(sbScript.sections) :
         LET node == NodeOf(sbWorkflow, Emitted(sbWorkflow)[k])
         IN IF FailingGenerator(node, sbScriptType)
            THEN /\ IsCommentLine(CodeIn(sbScript.sections[k]))
                 /\ Contains(CodeIn(sbScript.sections[k]), ErrorMessage(node, sbScriptType))
            ELSE sbScript.sections[k]
                   = generateScript(Repaired(sbWorkflow, sbScriptType), sbScriptType).sections[k]

\* a script was generated from a node whose generator throws an error with a
\* message of two lines: the second line lies in the script as a command
C10_MessageLineInScript ==
  /\ pc = "exited"
  /\ sbScript.ok
  /\ \E k \in 1..Len(sbScript.sections) :
       /\ FailingGenerator(NodeOf(sbWorkflow, Emitted(sbWorkflow)[k]), sbScriptType)
       /\ \E j \in 2..Len(CodeIn(sbScript.sections[k])) :
            /\ CodeIn(sbScript.sections[k])[j - 1] = "\n"
            /\ CodeIn(sbScript.sections[k])[j] = "rm -rf build"

-----------------------------------------------------------------------------
(* C11 *)

\* the operation of the node is no log node, no lazi command and no entry of
\* the catalog (under its id or, for an id without "custom-", under
\* "custom-test-" and the id), or the entry has no generator for the type
UnknownOperation(node, scriptType) ==
  LET key == IF node.op[1] = "custom-" THEN node.op ELSE <<"custom-", "test-">> \o node.op
  IN /\ node.script
     /\ node.op # <<"cmdregistry-log">>
     /\ node.op[1] # "lazi-"
     /\ \/ node.op \notin DOMAIN customNodes /\ key \notin DOMAIN customNodes
        \/ node.op \in DOMAIN customNodes /\ customNodes[node.op][scriptType] = <<>>
        \/ node.op \notin DOMAIN customNodes /\ key \in DOMAIN customNodes
           /\ customNodes[key][scriptType] = <<>>

\* the workflow with every node of an unknown operation given a known one
WithKnownOperations(workflow, scriptType) ==
  [workflow EXCEPT !.nodes =
     [k \in 1..Len(workflow.nodes) |->
        IF UnknownOperation(workflow.nodes[k], scriptType)
        THEN [workflow.nodes[k] EXCEPT !.op = <<"custom-", "ok">>]
        ELSE workflow.nodes[k]]]

\* the sections of the generated script that are headed by the node id
SectionsOf(id) == {k \in 1..Len(sbScript.sections) : sbScript.sections[k][5] = id}

\* C11: generateScript does not abort on a node of an unknown operation: the
\* script has one section for every node with script data; the code of a
\* node of an unknown operation is the comment "# TODO: Unknown operation
\* <id>", and the section of every other node is what it is when all
\* operations are known.
C11_UnknownNodeResilience ==
  pc = "exited" =>
    /\ sbScript.ok
    /\ \A n \in 1..Len(sbWorkflow.nodes) :
         LET node == sbWorkflow.nodes[n]
             known == generateScript(WithKnownOperations(sbWorkflow, sbScriptType),
                                     sbScriptType).sections
         IN node.script =>
              /\ Cardinality(SectionsOf(node.id)) = 1
              /\ \A k \in SectionsOf(node.id) :
                   IF UnknownOperation(node, sbScriptType)
                   THEN CodeIn(sbScript.sections[k])
                          = <<"# TODO: Unknown operation ">> \o node.op
                   ELSE sbScript.sections[k] \in Range(known)

\* a script was generated from two nodes, the first of an operation the
\* catalog does not hold, the second a template node: the script holds the
\* TODO comment of the first and the section of the second
C11_UnknownThenKnown ==
  /\ pc = "exited"
  /\ Len(sbWorkflow.nodes) = 2
  /\ sbWorkflow.nodes[1].op = <<"custom-", "nope">>
  /\ sbWorkflow.nodes[2].op = <<"custom-", "echo">>
  /\ sbWorkflow.nodes[2].script
  /\ sbWorkflow.edges = <<>>
  /\ Len(sbScript.sections) = 2
  /\ CodeIn(sbScript.sections[1]) = <<"# TODO: Unknown operation ", "custom-", "nope">>

-----------------------------------------------------------------------------
(* C12 *)

\* the branch text with every line after the first prefixed by ws
Reindented(branchCode, ws) ==
  LET bl == SplitText(branchCode)
  IN JoinLines([k \in 1..Len(bl) |-> IF k = 1 THEN bl[k] ELSE ws \o bl[k]])

\* the text with the placeholders of the branch replaced, line by line, by
\* the branch text re-indented to the leading whitespace of the line; the
\* lines without the placeholder are kept
WithBranch(t, handleId, branchCode) ==
  LET lines == SplitText(t)
  IN JoinLines([k \in 1..Len(lines) |->
                  ReplaceAll(lines[k], BranchPlaceholder(handleId),
                             Reindented(branchCode, LeadingWhitespace(lines[k])))])

\* C12: what compileTemplate renders with the branch h given is the text
\* (after the substitution of config) in which every line that holds
\* {{branches.h}} has the placeholder replaced by the branch text, each line
\* of it after the first prefixed by the leading whitespace of the
\* placeholder's line, and every other line is unchanged (a newline more at
\* the end of the text is let pass).
C12_BranchReindentation ==
  pc = "exited" /\ tplBranches # <<>> =>
    LET claimed == WithBranch(SubstituteConfig(tplTemplate, tplConfig),
                              tplBranches[1].key, tplBranches[1].value)
    IN rendered \in {<<claimed>>, <<claimed \o <<"\n">>>>}

\* the template `{{branches.h}} {{branches.h}}` was rendered with the branch
\* a / b: the second placeholder is still there
C12_SecondPlaceholderKept ==
  /\ pc = "exited"
  /\ tplBranches = <<Entry("h", <<"a", "\n", "b">>)>>
  /\ tplTemplate = BranchPlaceholder("h") \o <<" ">> \o BranchPlaceholder("h")
  /\ rendered = <<<<"a", "\n", "b", " ">> \o BranchPlaceholder("h") \o <<"\n">>>>

-----------------------------------------------------------------------------
(* C13 *)

\* the text before and the text after the first piece sep of t
SplitAt(t, sep) ==
  LET at == {k \in 1..Len(t) : t[k] = sep}
  IN IF at = {} THEN <<t, <<>>>>
     ELSE LET k == CHOOSE j \in at : \A h \in at : j <= h
          IN <<SubSeq(t, 1, k - 1), SubSeq(t, k + 1, Len(t))>>

\* the fields a Session line holds: `<session id> | <user>@<host> | <directory>`
SessionFields(line) ==
  LET a == SplitAt(line.body, " | ")
      b == SplitAt(a[2], "@")
      c == SplitAt(b[2], " | ")
  IN [sessionId |-> a[1], user |-> b[1], hostname |-> c[1], workingDir |-> c[2]]

\* the record read holds what was written in entry under logId
Reproduces(lines, logId, entry) ==
  /\ Len(lines) >= 4
  /\ lines[1].tag = "Log" /\ lines[1].num = logId /\ lines[1].txt = ""
  /\ lines[1].body = entry.commandName \o <<" ", "(">> \o entry.commandExecuted \o <<")">>
  /\ lines[2].tag = "Session"
  /\ SessionFields(lines[2]) = [f \in {"sessionId", "user", "hostname", "workingDir"} |->
                                  entry.sessionInfo[f]]
  /\ lines[4].tag = "Exit Code" /\ lines[4].num = entry.exitCode
  /\ lines[Len(lines)] = LOG_SEPARATOR

\* C13: whenever writeLog has appended a record, readLogs(1) gives that
\* record, with the command name, the exit code and the session id, user,
\* host and working directory written, and getLogById of the id writeLog
\* returned gives the command name and the command that were written.
C13_RoundTrip ==
  [][\A id \in ApiIds, entry \in ApiEntries :
       LoggerWriteLog(id, entry) =>
         LET logId == writeLog(disk, [entry EXCEPT !.id = id]).id
         IN /\ Reproduces(readLogs(disk', 1), logId, entry)
            /\ getLogById(disk', logId)
                 = FoundCommand(entry.commandName, entry.commandExecuted)]_vars

\* the one-off command `echo (hi)` is the only record of the log, under the
\* id 1 that the counter gave, and getLogById(1) gives the command name
\* `echo` and the command `hi) (echo (hi)`
C13_CommandNameCut ==
  /\ pc = "api"
  /\ issued = <<1>> /\ given = <<>>
  /\ Len(Entries(disk)) = 1
  /\ Reproduces(readLogs(disk, 1), 1,
                SingleEntry(<<"echo", " ", "(", "hi", ")">>, <<1>>, OtherSession))
  /\ getLogById(disk, 1)
       = FoundCommand(<<"echo">>,
                      <<"hi", ")", " ", "(", "echo", " ", "(", "hi", ")">>)

-----------------------------------------------------------------------------
(* C14 *)

\* the places of the header lines of the log file: a record was appended at each
Heads(d) == {k \in 1..Len(d.logLines) : d.logLines[k].tag = "Log"}

\* the lines appended at the header p: up to the next header
RecordAt(d, p) ==
  LET after == {h \in Heads(d) : h > p}
      next == IF after = {} THEN Len(d.logLines) + 1
              ELSE CHOOSE h \in after : \A g \in after : h <= g
  IN SubSeq(d.logLines, p, next - 1)

\* the record was appended whole: its separator ends it
Whole(record) == record[Len(record)] = LOG_SEPARATOR

CutHeads(d) == {p \in Heads(d) : ~Whole(RecordAt(d, p))}

\* the records appended whole after a record that was cut short
LaterHeads(d) ==
  {q \in Heads(d) : Whole(RecordAt(d, q)) /\ \E p \in CutHeads(d) : p < q}

\* the record without its separator
Content(record) == SubSeq(record, 1, Len(record) - 1)

UniqueIds(d) ==
  \A p, q \in Heads(d) : d.logLines[p].num = d.logLines[q].num => p = q

\* C14: in a log whose ids are all different and whose last record was
\* appended whole, every record appended whole after a record that was cut
\* short is given by its own id (a command or event start by getLogById, a
\* step by getStepCode), and getLogCount counts the records appended whole.
C14_ParseableAfterPartialWrite ==
  (pc = "api" /\ disk.logExists /\ UniqueIds(disk) /\ Whole(disk.logLines)) =>
    /\ \A q \in LaterHeads(disk) :
         LET record == RecordAt(disk, q)
         IN /\ KindOf(record) \in {"single", "event-start"} =>
                 getLogById(disk, IdOf(record)) = LogOfEntry(Content(record))
            /\ KindOf(record) = "event-step" =>
                 getStepCode(disk, IdOf(record)) = StepOfEntry(Content(record))
    /\ getLogCount(disk) = Cardinality(Heads(disk) \ CutHeads(disk))

\* the record 1 of a command was cut short and the record 2 of the command
\* list was then appended whole: getLogById(2) finds nothing, getLogById(1)
\* gives the record that was cut short
C14_LaterRecordSwallowed ==
  /\ pc = "api" /\ issued = <<1, 2>> /\ given = <<>>
  /\ CutHeads(disk) = {1}
  /\ LaterHeads(disk) # {}
  /\ getLogById(disk, 2) = NoLog
  /\ getLogById(disk, 1) = FoundCommand(<<"list">>, <<"grep", " ", "EVENT-START">>)
  /\ getLogCount(disk) = 1

-----------------------------------------------------------------------------
(* C15 *)

\* the counts readLogs is asked with: 0 stands for no count as well
ReadCounts == 0..(MaxApiWrites + 1)

\* the lines of the file, the last record ended if the file does not end it
Closed(d) ==
  IF d.logLines # <<>> /\ d.logLines[Len(d.logLines)] # LOG_SEPARATOR
  THEN d.logLines \o <<LOG_SEPARATOR>> ELSE d.logLines

\* the record that the separator at e ends, the separator with it
RecordEndingAt(lines, e) ==
  LET before == {k \in 1..(e - 1) : lines[k] = LOG_SEPARATOR}
      from == IF before = {} THEN 1 ELSE (CHOOSE k \in before : \A h \in before : h <= k) + 1
  IN SubSeq(lines, from, e)

\* the separators that end a well-formed record: one with a header line
WellFormedEnds(lines) ==
  {e \in 1..Len(lines) :
     /\ lines[e] = LOG_SEPARATOR
     /\ \E k \in 1..Len(RecordEndingAt(lines, e)) : RecordEndingAt(lines, e)[k].tag = "Log"}

RECURSIVE InWriteOrder(_, _)
\* the records that end at ends, one after the other as they lie in the file
InWriteOrder(lines, ends) ==
  IF ends = {} THEN <<>>
  ELSE LET e == CHOOSE k \in ends : \A h \in ends : k <= h
       IN RecordEndingAt(lines, e) \o InWriteOrder(lines, ends \ {e})

\* the n most recent well-formed records, all of them when there are fewer
MostRecent(d, n) ==
  LET lines == Closed(d)
      ends == WellFormedEnds(lines)
  IN InWriteOrder(lines, {e \in ends : Cardinality({h \in ends : h > e}) < n})

-----------------------------------------------------------------------------
(* C16 *)

\* C16: when clearLogs has returned, neither the log file nor the counter
\* file exists.
C16_ClearDeletesBoth ==
  [][LoggerClearLogs => ~disk'.logExists /\ ~disk'.counterExists]_vars

\* two records were written and the log was cleared: the log file is gone,
\* the counter file is there and holds 2
C16_CounterLeft ==
  /\ pc = "api" /\ issued = <<1, 2>> /\ given = <<>>
  /\ ~disk.logExists
  /\ disk.counterExists /\ disk.counterText = <<"2">>

-----------------------------------------------------------------------------
(* C17 *)

\* the ids looked up: those of the records and two that no record has
LookupIds == 0..(MaxApiWrites + 1)

\* the records of the log that are headed by id, in the order of the log
RecordsOfId(d, id) ==
  LET entries == Entries(d)
  IN Filter(entries, {e \in Range(entries) : IdOf(e) = id})

\* the step a record of kind event-step holds
StepIn(record) ==
  FoundStep(StepOf(record), record[1].body, ParentOf(record),
            Filter(record, {l \in Range(record) : l.tag = "text"}))

-----------------------------------------------------------------------------
(* C18 *)

-----------------------------------------------------------------------------
(* C19 *)

\* the start records of the log, in the order they were written
StartRecords(d) ==
  LET entries == Entries(d)
  IN Filter(entries, {e \in Range(entries) : IsStart(e)})

Min(a, b) == IF a <= b THEN a ELSE b

\* C19: getAllEvents gives the records of kind event-start and batch-start
\* of the log, no other record, in the order they were written; and
\* `lazi events -n N` prints the min(N, total) most recent of them, the
\* newest first.
C19_EventListing ==
  pc = "api" =>
    LET starts == StartRecords(disk)
        total == Len(starts)
    IN /\ getAllEvents(disk) = starts
       /\ \A N \in ReadCounts :
            LET printed == eventsCommand(disk, N)
            IN /\ Len(printed) = Min(N, total)
               /\ \A j \in 1..Len(printed) :
                    /\ printed[j].logId = IdOf(starts[total - j + 1])
                    /\ printed[j].scriptName = starts[total - j + 1][1].body

\* the log holds the start of a script event (1) and the start of a batch
\* (2) and nothing else: `lazi events -n 0` prints both, the batch first
C19_NoneAskedAllPrinted ==
  /\ pc = "api" /\ issued = <<1, 2>> /\ given = <<>>
  /\ LET entries == Entries(disk)
         printed == eventsCommand(disk, 0)
     IN /\ Len(entries) = 2
        /\ KindOf(entries[1]) = "event-start" /\ KindOf(entries[2]) = "batch-start"
        /\ getAllEvents(disk) = entries
        /\ Len(printed) = 2
        /\ printed[1].logId = 2 /\ printed[2].logId = 1

\* the log holds the record 1 of the command `grep EVENT-START` and nothing
\* else: getAllEvents gives that record
C19_CommandListedAsEvent ==
  /\ pc = "api" /\ issued = <<1>> /\ given = <<>>
  /\ Len(Entries(disk)) = 1
  /\ KindOf(Entries(disk)[1]) = "single"
  /\ getAllEvents(disk) = Entries(disk)

-----------------------------------------------------------------------------
(* C20 *)

\* the words that begin a partition: a word other than THEN that is the first
\* word or follows a THEN
Beginnings(args) ==
  {k \in 1..Len(args) : args[k] # "THEN" /\ (k = 1 \/ args[k - 1] = "THEN")}

\* C20: once a lazi process has started on the words argv, the partitions it
\* holds are non-empty and hold no THEN, one begins at every word that is
\* first or follows a THEN, and put one after the other they are the words
\* of argv other than THEN in their order; the process is in the batch loop,
\* its batch start record written, if and only if there is more than one
\* partition, and with one partition nothing of a batch is written and the
\* command is run as an ordinary command.
C20_SplittingRule ==
  pc # "idle" =>
    /\ \A k \in 1..Len(commandBatches) :
         /\ commandBatches[k] # <<>>
         /\ \A j \in 1..Len(commandBatches[k]) : commandBatches[k][j] # "THEN"
    /\ Len(commandBatches) = Cardinality(Beginnings(argv))
    /\ Concat(commandBatches) = Filter(argv, Tokens \ {"THEN"})
    /\ pc = "batch-loop" <=> Len(commandBatches) > 1
    /\ Len(commandBatches) > 1 => eventId = 1 /\ Len(Entries(disk)) = 1
    /\ Len(commandBatches) = 1 =>
         /\ disk = EmptyDisk /\ eventId = 0
         /\ pc = IF argv[1] \in LoggingCommands THEN "cmd-wait" ELSE "exited"

\* lazi list THEN THEN quick was started: the process is in the batch loop
\* with the partitions list and quick, the empty one between the two THEN
\* dropped
C20_EmptyPartitionDropped ==
  /\ pc = "batch-loop"
  /\ argv = <<"list", "THEN", "THEN", "quick">>
  /\ commandBatches = <<<<"list">>, <<"quick">>>>

-----------------------------------------------------------------------------
(* C21 *)

RECURSIVE SplitIds(_, _)
\* the ids of a text of numbers with commas between them
SplitIds(t, current) ==
  IF t = <<>> THEN <<ParseInt(current)>>
  ELSE IF Head(t) = "," THEN <<ParseInt(current)>> \o SplitIds(Tail(t), <<>>)
  ELSE SplitIds(Tail(t), Append(current, Head(t)))

\* the log holds a record of one of the kinds headed by id
HasRecord(d, id, kinds) ==
  \E k \in 1..Len(Entries(d)) : IdOf(Entries(d)[k]) = id /\ KindOf(Entries(d)[k]) \in kinds

AllKinds ==
  {"single", "event-start", "event-step", "event-end", "batch-start", "batch-step", "batch-end"}

\* the target of the lookup l is not there
Missing(d, l) ==
  IF l.program = "lazi"
  THEN CASE l.command \in {"rerun", "promote"} -> ~HasRecord(d, ParseInt(l.target), AllKinds)
         [] l.command = "event" -> ~HasRecord(d, ParseInt(l.target), {"event-start"})
         [] l.command = "step" -> ~HasRecord(d, ParseInt(l.target), {"event-step"})
         [] l.command = "build" ->
              \E k \in 1..Len(SplitIds(l.target, <<>>)) :
                ~HasRecord(d, SplitIds(l.target, <<>>)[k], {"event-step"})
  ELSE IF l.command = "node show" THEN l.target \notin DOMAIN customNodes
  ELSE l.target[1] \notin {w.name : w \in SavedWorkflows}

\* C21: when a process that ran a command looking up a log id, a step id,
\* an event id, a workflow or a node has ended and its target was missing,
\* it has printed that the target is missing and its exit status is not 0.
C21_NotFoundReported ==
  pc = "exited" /\ lookup # NoLookup /\ Missing(disk, lookup)
    => lookup.reported /\ exitStatus # 0

\* lazi step 1 has ended on a log whose record 1 is an event start: it has
\* printed that the step is not found and its exit status is 0
C21_StepMissingExitZero ==
  /\ pc = "exited"
  /\ lookup = Looked("lazi", "step", <<"1">>, TRUE)
  /\ Len(Entries(disk)) = 3
  /\ KindOf(Entries(disk)[1]) = "event-start"
  /\ exitStatus = 0

-----------------------------------------------------------------------------
(* C22 *)

\* what each writer of the Logger would return if called now
WriterResults(d) ==
  {writeLog(d, [entry EXCEPT !.id = id]) : id \in ApiIds, entry \in ApiEntries}
  \cup {startEventLog(d, "wf", "bash", 1, <<"ls">>), writeBatchStart(d, 2, ProcessSession)}
  \cup {writeStepLog(d, p, n, "node", <<"ls">>) : p \in ApiParents, n \in ApiSteps}
  \cup {endEventLog(d, p, "wf", 0, <<"out">>, <<>>) : p \in ApiParents}
  \cup {writeBatchStep(d, p, n, "list", <<"list">>,
                       [exitCode |-> 0, success |-> TRUE, error |-> ""]) :
          p \in ApiParents, n \in ApiSteps}
  \cup {writeBatchEnd(d, p, [totalCommands |-> 2, successful |-> 2, failed |-> 0]) :
          p \in ApiParents}

\* C22: while the append to the log file fails, every writer of the Logger
\* returns -1 and leaves the log file as it is; a batch that has ended has
\* run every sub-command, in order, and its exit status is 1 if it counted
\* a failure and 0 otherwise; and a run/quick process whose child closes
\* ends with exit status 0 if the code is 0, else with the code, or 1 when
\* there is none, whether or not its record could be appended.
C22_BestEffortLogging ==
  /\ [](/\ ~disk.logWritable =>
             \A w \in WriterResults(disk) :
               /\ w.id = -1
               /\ w.disk.logLines = disk.logLines
               /\ w.disk.logExists = disk.logExists
        /\ BatchDone =>
             /\ Len(outcomes) = Len(commandBatches)
             /\ \A k \in 1..Len(outcomes) : outcomes[k].step = k
             /\ failureCount = Len(outcomes) - Cardinality(ExitedZero)
             /\ exitStatus = BatchExitCode(failureCount))
  /\ [][\A exitCode \in CloseCodes :
          CommandClose(exitCode) =>
            /\ pc' = "exited"
            /\ exitStatus' = (IF exitCode = <<0>> THEN 0
                              ELSE IF exitCode = <<>> THEN 1 ELSE exitCode[1])]_vars

\* a batch of two sub-commands has ended while the log file could not be
\* appended to: five ids were drawn, no record is in the log, the start
\* writer returned -1, and the exit status is 1 for the sub-command that
\* exited with 1
C22_BatchWithoutLog ==
  /\ BatchDone
  /\ ~disk.logWritable
  /\ ~disk.logExists /\ disk.logLines = <<>>
  /\ issued = <<1, 2, 3, 4, 5>>
  /\ eventId = -1
  /\ outcomes = <<Outcome(1, "close", <<1>>), Outcome(2, "close", <<0>>)>>
  /\ exitStatus = 1

-----------------------------------------------------------------------------
(* C23 *)

\* C23: every id getNextLogId has returned, whether a call failed on the
\* counter file or not, is greater than every id it returned before; and a
\* call that fails returns an id no smaller than the clock's first value.
C23_FallbackIncreasing ==
  /\ \A a, b \in 1..Len(issued) : a < b => issued[a] < issued[b]
  /\ ~disk.counterWritable => getNextLogId(disk).id >= Epoch

\* a call failed on the counter file and returned the time; the file could
\* be used again, and the next call returned 1
C23_SmallAfterFallback ==
  /\ pc = "api"
  /\ issued = <<Epoch, 1>>
  /\ disk.counterWritable
  /\ disk.counterText = <<"1">>

-----------------------------------------------------------------------------
(* C24 *)

\* the calls of getNextLogId that have returned: the process and the number
\* of the call in the process
Returned24 == {<<p, k>> : p \in Procs, k \in 1..MaxCalls} \cap
              {c \in Procs \X (1..MaxCalls) : c[2] <= Len(allocs[c[1]].calls)}

CallOf(c) == allocs[c[1]].calls[c[2]]

\* C24: a call of getNextLogId returns one more than the counter value it
\* read (1 if it found no counter file), whatever another process has
\* written to the file between its read and its write-back; so two calls
\* that read the same value return the same id, and the file holds the id
\* the last call returned, even when that lowers the counter.
C24_UnlockedAllocator ==
  /\ \A c \in Returned24 :
       CallOf(c).id = IF CallOf(c).saw.exists THEN CallOf(c).saw.counter + 1 ELSE 1
  /\ \A c, e \in Returned24 :
       CallOf(c).saw = CallOf(e).saw => CallOf(c).id = CallOf(e).id
  /\ issued # <<>> =>
       disk.counterExists /\ disk.counterText = Dec(issued[Len(issued)])

\* two processes have each made one call on an empty directory, both read
\* before either wrote back, and both returned the id 1
C24_SameIdTwice ==
  /\ issued = <<1, 1>>
  /\ Len(allocs[1].calls) = 1 /\ Len(allocs[2].calls) = 1
  /\ allocs[1].calls[1].id = 1 /\ allocs[2].calls[1].id = 1
  /\ allocs[1].calls[1].saw = allocs[2].calls[1].saw
  /\ allocs[1].calls[1].stale \/ allocs[2].calls[1].stale
  /\ disk.counterText = <<"1">>

-----------------------------------------------------------------------------
(* C25 *)

\* scriptbuilder generate has ended and sbScript is what it printed
Generated == pc = "exited" /\ lookup.command = "generate" /\ exitStatus = 0

\* the places in the script of the nodes that replay a log
ReplayPlaces ==
  {k \in 1..Len(Emitted(sbWorkflow)) :
     LET node == NodeOf(sbWorkflow, Emitted(sbWorkflow)[k])
     IN node.op = <<"cmdregistry-log">> /\ ConfigValue(node.config, "logId").kind = "number"}

ReplayedId(k) == ConfigValue(NodeOf(sbWorkflow, Emitted(sbWorkflow)[k]).config, "logId").num

\* the command lazi quick ran, as writeLog was handed it: the header holds it
\* twice, as the name and between the brackets
QuickCommandOf(entry) == SubSeq(entry[1].body, 1, (Len(entry[1].body) - 3) \div 2)

\* the code of the section at place k of the script
CodeAt(k) ==
  LET node == NodeOf(sbWorkflow, Emitted(sbWorkflow)[k])
      section == sbScript.sections[k]
  IN SubSeq(section, 7, Len(section) - 2)

PlaceholderHeads ==
  {"# Error: Log file not found", "# Error: Log-", "# Error retrieving command from Log-"}

\* C25: in a generated script the section of a node that replays the log id
\* n holds the comment `# From Log-n` and, on the next line, the command of
\* the record n word for word, when the Logger's log file holds one record
\* of the id n and it is the record of a command; it holds a placeholder
\* error comment when the log file holds no record of the id or the records
\* of the id are event records; and the script has a section for every node.
C25_LogReplay ==
  Generated =>
    /\ sbScript.ok
    /\ Len(sbScript.sections) = Len(Emitted(sbWorkflow))
    /\ \A k \in ReplayPlaces :
         LET records == RecordsOfId(disk, ReplayedId(k))
         IN /\ Len(records) = 1 /\ KindOf(records[1]) = "single"
                 => CodeAt(k) = <<"# From Log-">> \o Dec(ReplayedId(k)) \o <<"\n">>
                                \o QuickCommandOf(records[1])
            /\ (\A j \in 1..Len(records) : KindOf(records[j]) # "single")
                 => CodeAt(k)[1] \in PlaceholderHeads

\* lazi quick "npm install" was logged as Log-1 in the default storage
\* directory, and the script generated for a node that replays log 1 says
\* that there is no log file
C25_LogFileNotFound ==
  /\ Generated
  /\ storageDir = DEFAULT_STORAGE_DIR
  /\ Len(RecordsOfId(disk, 1)) = 1
  /\ QuickCommandOf(RecordsOfId(disk, 1)[1]) = <<"npm install">>
  /\ 1 \in ReplayPlaces
  /\ ReplayedId(1) = 1
  /\ CodeAt(1) = <<"# Error: Log file not found">>

-----------------------------------------------------------------------------
(* C26 *)

\* the places in the script of the nodes that add-node --log made
AddedLogPlaces ==
  {k \in 1..Len(Emitted(sbWorkflow)) :
     LET node == NodeOf(sbWorkflow, Emitted(sbWorkflow)[k])
     IN node.op = <<"lazi-", "log">> /\ ConfigValue(node.config, "logId").kind = "number"}

\* C26: in a generated script the code of a node that `add-node <workflow>
\* --log n` added is the command of the record n of the Logger's log file
\* word for word, alone or under the comment `# From Log-n`, when the log
\* file holds one record of the id n and it is the record of a command.
C26_AddedLogNodeIsCommand ==
  Generated =>
    \A k \in AddedLogPlaces :
      LET records == RecordsOfId(disk, ReplayedId(k))
      IN Len(records) = 1 /\ KindOf(records[1]) = "single"
           => \/ CodeAt(k) = QuickCommandOf(records[1])
              \/ CodeAt(k) = <<"# From Log-">> \o Dec(ReplayedId(k)) \o <<"\n">>
                             \o QuickCommandOf(records[1])

\* lazi quick "npm install" was logged as Log-1, add-node my-flow --log 1
\* added the first node of my-flow, and the script generated for it runs
\* the lazi command named log
C26_RenderedAsLaziRun ==
  /\ Generated
  /\ Len(RecordsOfId(disk, 1)) = 1
  /\ QuickCommandOf(RecordsOfId(disk, 1)[1]) = <<"npm install">>
  /\ 1 \in AddedLogPlaces
  /\ ReplayedId(1) = 1
  /\ CodeAt(1) = <<"# Run lazi command: ", "log", "\n", "lazi run ", "log", " ", "1">>

-----------------------------------------------------------------------------
(* C27 *)

-----------------------------------------------------------------------------
(* C28 *)

RECURSIVE SourcesInto(_, _)
\* the sources of the edges of es that end in id, in the order of es
SourcesInto(es, id) ==
  IF es = <<>> THEN <<>>
  ELSE (IF Head(es).target = id THEN <<Head(es).source>> ELSE <<>>) \o SourcesInto(Tail(es), id)

\* an id that is no declared node has no dependencies
RefDependencies(workflow, id) ==
  IF id \in DeclaredIds(workflow) THEN SourcesInto(workflow.edges, id) ELSE <<>>

RECURSIVE RefWalk(_, _, _, _)
\* the reference depth-first walk with its own stack: a frame is a node and
\* the dependencies of it not looked at yet; a node is emitted when its frame
\* has none left
RefWalk(workflow, stack, seen, out) ==
  IF stack = <<>> THEN [seen |-> seen, out |-> out]
  ELSE LET top == stack[Len(stack)]
           below == SubSeq(stack, 1, Len(stack) - 1)
       IN IF top.rest = <<>> THEN RefWalk(workflow, below, seen, Append(out, top.id))
          ELSE LET d == Head(top.rest)
                   waiting == Append(below, [top EXCEPT !.rest = Tail(@)])
               IN IF d \in seen THEN RefWalk(workflow, waiting, seen, out)
                  ELSE RefWalk(workflow,
                               Append(waiting, [id |-> d, rest |-> RefDependencies(workflow, d)]),
                               seen \cup {d}, out)

RECURSIVE RefSeed(_, _, _, _)
\* the walk begun at each declared node not yet seen, in declaration order
RefSeed(workflow, k, seen, out) ==
  IF k > Len(workflow.nodes) THEN out
  ELSE LET id == workflow.nodes[k].id
       IN IF id \in seen THEN RefSeed(workflow, k + 1, seen, out)
          ELSE LET w == RefWalk(workflow,
                                <<[id |-> id, rest |-> RefDependencies(workflow, id)]>>,
                                seen \cup {id}, out)
               IN RefSeed(workflow, k + 1, w.seen, w.out)

RefPostOrder(workflow) == RefSeed(workflow, 1, {}, <<>>)

\* C28: the order generateScript computes is the reference depth-first
\* post-order: the walk is begun at each node in declaration order, goes
\* into the dependencies of a node that were not visited yet in the order of
\* the edges, and emits the node after them; every declared node is in the
\* order exactly once, the sections of the script are those of the nodes
\* with script data in that order, and a workflow without edges is emitted in
\* declaration order.
C28_ReferencePostOrder ==
  pc = "exited" =>
    /\ sbScript.sorted = RefPostOrder(sbWorkflow)
    /\ \A id \in DeclaredIds(sbWorkflow) : Cardinality(PlacesOf(id)) = 1
    /\ sbWorkflow.edges = <<>> =>
         sbScript.sorted = [k \in 1..Len(sbWorkflow.nodes) |-> sbWorkflow.nodes[k].id]
    /\ sbScript.ok =>
         LET kept == {k \in 1..Len(sbScript.sorted) :
                        /\ sbScript.sorted[k] \in DeclaredIds(sbWorkflow)
                        /\ NodeOf(sbWorkflow, sbScript.sorted[k]).script}
         IN /\ Len(sbScript.sections) = Cardinality(kept)
            /\ \A k \in kept :
                 sbScript.sections[Cardinality({j \in kept : j <= k})][5] = sbScript.sorted[k]

\* a script was generated for three nodes of which the first depends on the
\* third and on the second, in this order of the edges: n3 is emitted first,
\* then n2, then n1
C28_EdgeOrderDecides ==
  /\ pc = "exited"
  /\ Len(sbWorkflow.nodes) = 3
  /\ sbWorkflow.edges = <<Edge("n3", "n1"), Edge("n2", "n1")>>
  /\ sbScript.sorted = <<"n3", "n2", "n1">>
  /\ sbScript.sections[1][5] = "n3"

-----------------------------------------------------------------------------
(* C30 *)

\* the session ids asked for: the two that records are written with and one
\* that no record has
AskedSessions == {ProcessSession.sessionId, OtherSession.sessionId, Dec(7)}

\* the entry was written in the session: its Session line names the id
OfSession(entry, sessionId) ==
  \E k \in 1..Len(entry) :
    entry[k].tag = "Session" /\ SessionFields(entry[k]).sessionId = sessionId

\* C30: searchBySession(s) returns the records whose Session line holds the
\* session id s itself, in the order they were written, each with its
\* separator, and no other record.
C30_ExactSessionFilter ==
  \A s \in AskedSessions :
    LET entries == Entries(disk)
    IN searchBySession(disk, s)
         = JoinEntries(Filter(entries, {e \in Range(entries) : OfSession(e, s)}))

\* the log holds a record of session 41 and no record of session 4, and the
\* search for session 4 returns the record of session 41
C30_LongerIdReturned ==
  /\ \E k \in 1..Len(Entries(disk)) : OfSession(Entries(disk)[k], Dec(41))
  /\ \A k \in 1..Len(Entries(disk)) : ~OfSession(Entries(disk)[k], Dec(4))
  /\ searchBySession(disk, Dec(4)) = disk.logLines
  /\ disk.logLines # <<>>

-----------------------------------------------------------------------------
(* C29 *)

\* the step is the return of a writer: an id was drawn or handed in
WriterStep == issued' # issued \/ given' # given

\* the step is the return of a reader
ReaderStep == lookup' # lookup

\* C29: a step of a writer of the Logger leaves the lines the log file held
\* as the beginning of the file and adds one record after them; a step of a
\* reader leaves the log file and the counter file as they were; and a step
\* after which the lines the file held are no longer its beginning is a step
\* of clearLogs, after which there is no log file.
C29_AppendOnly ==
  [][/\ WriterStep =>
          /\ disk'.logExists
          /\ IsPrefix(disk.logLines, disk'.logLines)
          /\ Len(Entries(disk')) = Len(Entries(disk)) + 1
     /\ ReaderStep => disk' = disk
     /\ ~IsPrefix(disk.logLines, disk'.logLines) =>
          /\ ~WriterStep /\ ~ReaderStep
          /\ ~disk'.logExists /\ disk'.logLines = <<>>
          /\ disk'.counterExists = disk.counterExists
          /\ disk'.counterText = disk.counterText]_vars

\* a record was written, the log was cleared, a second record was written
\* and a reader was called: the log holds the record 2 alone
C29_WrittenClearedWrittenRead ==
  /\ issued = <<1, 2>>
  /\ Len(Entries(disk)) = 1
  /\ IdOf(Entries(disk)[1]) = 2
  /\ lookup.program = "Logger"
  /\ ~lookup.reported

-----------------------------------------------------------------------------
(* C31 *)

\* the records appended since the log file was last removed: the file
\* begins with the header of the first of them, and the last of them has the
\* id drawn last
AppendedSinceClear ==
  IF disk.logLines = <<>> THEN 0 ELSE Len(issued) - disk.logLines[1].num + 1

\* C31: when no line of payload is `---` alone, the readers see the records
\* that were appended and no other: getLogCount is the number of appends
\* since the log file was last removed, and the k-th entry begins with the
\* header of the k-th record appended, also when lines of the payload end in
\* `---` after other text.
C31_SplitAtSeparatorLines ==
  /\ getLogCount(disk) = AppendedSinceClear
  /\ \A k \in 1..Len(Entries(disk)) :
       /\ Entries(disk)[k][1].tag = "Log"
       /\ Entries(disk)[k][1].num = disk.logLines[1].num + k - 1

\* one record was appended, its output the three lines `a`, `== ---` and
\* `b`: the readers split it after the second line and count two records
C31_DashesEndALine ==
  /\ issued = <<1>>
  /\ \E k \in 1..Len(disk.logLines) - 2 :
       /\ disk.logLines[k].tag = "text" /\ disk.logLines[k].body = <<"== ">>
       /\ disk.logLines[k + 1] = LOG_SEPARATOR
       /\ disk.logLines[k + 2].tag = "text" /\ disk.logLines[k + 2].body = <<"b">>
  /\ getLogCount(disk) = 2

-----------------------------------------------------------------------------
(* C32 *)

\* the step is startEventLog("wf", scriptType, 1, scriptContent)
StartedEvent(scriptType, scriptContent) ==
  /\ Len(issued') = Len(issued) + 1
  /\ disk' = startEventLog(disk, "wf", scriptType, 1, scriptContent).disk

\* the script without the empty lines before and after it
TrimmedScript(scriptContent) == TrimLines([k \in 1..Len(SplitText(scriptContent)) |->
                                             TextLine(SplitText(scriptContent)[k])])

\* C32: after startEventLog(name, type, n, script) has returned the id,
\* getLogById(id) is an event entry of that name, whose scriptType is type
\* and whose scriptContent is the script without the white space around it
\* (the script that rerun <id> then runs).
C32_EventRoundTrip ==
  [][\A t \in EventScriptTypes, script \in EventScripts :
       StartedEvent(t, script) =>
         getLogById(disk', issued'[Len(issued')]) = FoundEvent(<<"wf">>, t, TrimmedScript(script))]_vars

\* the event 1 was started with the script `echo ---`, `ls`: its record ends
\* after `echo `, and getLogById(1) has the script `echo `
C32_ScriptCutAtDashes ==
  /\ issued = <<1>>
  /\ \E k \in 1..Len(disk.logLines) - 2 :
       /\ disk.logLines[k].tag = "Script-Content"
       /\ disk.logLines[k + 1].body = <<"echo ">>
       /\ disk.logLines[k + 2] = LOG_SEPARATOR
  /\ getLogById(disk, 1) = FoundEvent(<<"wf">>, "bash", <<TextLine(<<"echo ">>)>>)

-----------------------------------------------------------------------------
(* C33 *)

\* the step is the command lazi build --from-steps stepIds [--type t] -o out
BuildRan(stepIds, typeOption) ==
  /\ pc = "idle" /\ pc' = "exited"
  /\ argv' = <<"build", "--from-steps">> \o JoinIds(stepIds) \o TypeWords(typeOption)
             \o <<"-o", "out">>

\* the records of the store with the id: the entries whose first line is the
\* header [Log-id]
RecordsOf(id) ==
  {k \in 1..Len(Entries(disk)) : Entries(disk)[k][1].tag = "Log" /\ Entries(disk)[k][1].num = id}

\* the id is that of an event-step record, and the record holds a step code
IsStepRecord(id) == \E k \in RecordsOf(id) : Entries(disk)[k][1].txt = "STEP"

HasStepCode(id) ==
  \E k \in RecordsOf(id) : \E j \in 1..Len(Entries(disk)[k]) : Entries(disk)[k][j].tag = "Step-Code"

\* the Script-Type of the event-start record the step record names as its parent
ParentScriptType(id) ==
  LET parent == getStepCode(disk, id)[1].parentEvent
      start == Entries(disk)[CHOOSE k \in RecordsOf(parent) : TRUE]
  IN start[CHOOSE j \in 1..Len(start) : start[j].tag = "Script-Type"].txt

\* how many sections the text holds
SectionCount(text) == Cardinality({k \in 1..Len(text) : text[k] = "# Step "})

-----------------------------------------------------------------------------
(* C34 *)

\* the batch process is in its loop, at the top of a turn or awaiting a child
InBatch == pc \in {"batch-loop", "batch-wait"}

\* the last record of the log is the batch-end record of the batch
BatchEndAppended ==
  LET entries == Entries(disk)
  IN /\ entries # <<>>
     /\ KindOf(entries[Len(entries)]) = "batch-end"
     /\ ParentOf(entries[Len(entries)]) = eventId

\* C34: when every sub-command spawned exits or fails to spawn, a batch
\* comes to append its batch-end record and to terminate, and it does not
\* terminate before each of its n sub-commands has run.
C34_BatchTerminates ==
  /\ [](BatchDone => Len(outcomes) = Len(commandBatches) /\ running = {})
  /\ [](InBatch => <>(BatchDone /\ BatchEndAppended))

\* a batch of two has ended: its first child failed to spawn, its second was
\* closed with code 1, and the batch-end record is the last of the log
C34_EndedAfterFailures ==
  /\ BatchDone /\ BatchEndAppended
  /\ Len(commandBatches) = 2
  /\ outcomes = <<Outcome(1, "error", <<>>), Outcome(2, "close", <<1>>)>>

-----------------------------------------------------------------------------
(* C35 *)

\* the edges of the workflow that leave an output handle
HandleEdges ==
  {k \in 1..Len(sbWorkflow.edges) : "sourceHandle" \in DOMAIN sbWorkflow.edges[k]}

\* the code of the section of the node id in the script generated
SectionCode(id) ==
  LET section == sbScript.sections[CHOOSE k \in 1..Len(sbScript.sections) :
                                     sbScript.sections[k][5] = id]
  IN SubSeq(section, 7, Len(section) - 2)

\* C35: when an edge with sourceHandle h leads from a branching node to a
\* target node, the script generated has the code of the target in the code
\* of the branching node, where its template has {{branches.h}}, and no
\* {{branches.*}} placeholder is left in the script.
C35_BranchesSpliced ==
  pc = "exited" =>
    /\ \A k \in HandleEdges :
         LET e == sbWorkflow.edges[k]
             branchCode == generateNodeCode(disk, NodeOf(sbWorkflow, e.target), sbScriptType).text
         IN /\ Includes(SectionCode(e.source), branchCode)
            /\ ~Includes(SectionCode(e.source), BranchPlaceholder(e.sourceHandle))
    /\ HandleEdges # {} => \A k \in 1..Len(sbScript.text) : sbScript.text[k] # "branches."

\* a script was generated for an if node with edges from true-path and
\* false-path: both placeholders are in the code of the if node, and the
\* targets have sections of their own after it
C35_PlaceholdersLeft ==
  /\ pc = "exited"
  /\ Cardinality(HandleEdges) = 2
  /\ Includes(SectionCode("n1"), BranchPlaceholder("true-path"))
  /\ Includes(SectionCode("n1"), BranchPlaceholder("false-path"))
  /\ Len(sbScript.sections) = 3

-----------------------------------------------------------------------------
(* C36 *)

\* the batch invocation that wrote the record: the session of a start
\* record, the command of a step record, the counts of an end record
WrittenBy(entry) ==
  IF KindOf(entry) = "batch-start"
  THEN (IF \E k \in 1..Len(entry) : entry[k] = SessionLine(ProcessSession) THEN 1 ELSE 2)
  ELSE IF KindOf(entry) = "batch-step"
  THEN (IF entry[1].body = <<"list">> THEN 1 ELSE 2)
  ELSE (IF Field(entry, "Failed") = 0 THEN 1 ELSE 2)

\* the batch invocations that have their batch-start id
StartedBatches == {p \in Procs : allocs[p].calls # <<>>}

\* C36: when two batch invocations write to one store at the same time,
\* getEventLogs(e), e being the id writeBatchStart returned to one of them,
\* returns records of that invocation only.
C36_FamilyIsolation ==
  \A p \in StartedBatches :
    LET logs == getEventLogs(disk, allocs[p].calls[1].id)
    IN \A k \in 1..Len(logs) : WrittenBy(logs[k]) = p

\* both invocations read the counter file before either wrote it back: both
\* have the batch-start id 1, and getEventLogs(1) returns the first step of
\* each of them
C36_TwoBatchesOneId ==
  /\ StartedBatches = Procs
  /\ allocs[1].calls[1].id = 1 /\ allocs[2].calls[1].id = 1
  /\ LET logs == getEventLogs(disk, 1)
     IN /\ \E k \in 1..Len(logs) : KindOf(logs[k]) = "batch-step" /\ WrittenBy(logs[k]) = 1
        /\ \E k \in 1..Len(logs) : KindOf(logs[k]) = "batch-step" /\ WrittenBy(logs[k]) = 2

-----------------------------------------------------------------------------
(* C37 *)

\* event or batch: the family the kind of a record belongs to
FamilyKind(entry) == IF KindOf(entry) \in {"event-start", "event-step", "event-end"}
                     THEN "event" ELSE "batch"

\* the step and end records of the log
ChildRecords == {k \in 1..Len(Entries(disk)) : IsStep(Entries(disk)[k]) \/ IsEnd(Entries(disk)[k])}

\* C37: whatever writes of the log have failed, every step record and every
\* end record in the store names as its Parent-Event the id of a start record
\* of its family (event or batch) that is in the store.
C37_NoDanglingChild ==
  \A k \in ChildRecords :
    \E j \in 1..Len(Entries(disk)) :
      /\ IsStart(Entries(disk)[j])
      /\ FamilyKind(Entries(disk)[j]) = FamilyKind(Entries(disk)[k])
      /\ IdOf(Entries(disk)[j]) = ParentOf(Entries(disk)[k])

\* the append of the batch-start record was refused and writeBatchStart
\* returned -1; the log file could be written again, and the store holds a
\* batch-step record with Parent-Event -1 and no start record
C37_StepOfNoStart ==
  /\ eventId = -1
  /\ \E k \in ChildRecords :
       KindOf(Entries(disk)[k]) = "batch-step" /\ ParentOf(Entries(disk)[k]) = -1
  /\ \A j \in 1..Len(Entries(disk)) : ~IsStart(Entries(disk)[j])

-----------------------------------------------------------------------------
(* C38 *)

\* the Status line of a batch-step record
StatusOf(entry) == entry[CHOOSE k \in 1..Len(entry) : entry[k].tag = "Status"].txt

BatchStepRecords(d) ==
  {k \in 1..Len(Entries(d)) : KindOf(Entries(d)[k]) = "batch-step"}

\* the step is the 'close' handler of run or quick, which has written a record
SingleLogged ==
  pc = "cmd-wait" /\ pc' = "exited" /\ Len(Entries(disk')) = Len(Entries(disk)) + 1

\* C38: a batch-step record has the Status Success exactly when its
\* Exit-Code is 0, and the record run or quick writes has the Exit Code 0
\* exactly when the invocation exits with the status 0, also when the child
\* was ended by a signal and has no exit code.
C38_ExitCodeAgrees ==
  [][/\ \A k \in BatchStepRecords(disk') :
          StatusOf(Entries(disk')[k]) = "Success" <=> Field(Entries(disk')[k], "Exit-Code") = 0
     /\ SingleLogged =>
          (Field(Entries(disk')[Len(Entries(disk'))], "Exit Code") = 0 <=> exitStatus' = 0)]_vars

\* a quick command was ended by a signal: its record, the only one of the
\* log, has the Exit Code 0, and the invocation has exited with the status 1
C38_SignalLoggedAsZero ==
  /\ pc = "exited" /\ exitStatus = 1
  /\ argv = <<"quick", "ls">>
  /\ Len(Entries(disk)) = 1
  /\ KindOf(Entries(disk)[1]) = "single"
  /\ Field(Entries(disk)[1], "Exit Code") = 0

-----------------------------------------------------------------------------
(* C39 *)

\* a workflow run has logged its event and its steps
RunLogged == pc \in {"run-wait", "exited"} /\ sbWorkflow # NoWorkflow /\ eventId > 0

\* the ids of the nodes of the step records of the run, ordered by stepNumber
\* (the step k is the record of the k-th node of the workflow file)
StepNodes ==
  LET steps == getStepsByEvent(disk, eventId)
  IN [k \in 1..Len(steps) |-> sbWorkflow.nodes[steps[k].stepNumber].id]

\* the ids of the nodes of the sections of the script, in their order
SectionNodes == [k \in 1..Len(sbScript.sections) |-> sbScript.sections[k][5]]

\* C39: of a logged workflow run, the event has as many event-step records
\* as the script generated has node sections, and the step records ordered by
\* stepNumber are of the nodes of the sections, in the order of the sections.
C39_StepsMirrorSections == RunLogged => StepNodes = SectionNodes

\* the run of a workflow of two command nodes with the edge n2 -> n1: the
\* sections are those of n2 and n1, the steps 1 and 2 those of n1 and n2
C39_StepsInFileOrder ==
  /\ RunLogged
  /\ sbWorkflow.edges = <<Edge("n2", "n1")>>
  /\ SectionNodes = <<"n2", "n1">>
  /\ StepNodes = <<"n1", "n2">>

(* C40 *)

\* the batch branch is entered: if (commandBatches.length > 1)
BatchMode == pc # "idle" /\ Len(commandBatches) > 1

\* program.parse() is called: if (commandBatches.length === 1)
ParseMode == pc # "idle" /\ Len(commandBatches) = 1

\* C40: every lazi process that has started on some words, the empty list and
\* a list of THEN only included, has taken exactly one of the two paths: the
\* batch branch or program.parse()
C40_DispatchedOnce ==
  (pc # "idle" /\ commandBatches = splitBatchCommands(argv))
    => (BatchMode /\ ~ParseMode) \/ (ParseMode /\ ~BatchMode)

\* lazi THEN THEN has ended with status 0 and has taken neither path
C40_ThenOnlyRunsNothing ==
  /\ argv = <<"THEN", "THEN">>
  /\ pc = "exited"
  /\ exitStatus = 0
  /\ splitBatchCommands(argv) = <<>>
  /\ commandBatches = <<>>
  /\ ~BatchMode /\ ~ParseMode

====
